---- MODULE Spec2Model ----
(***************************************************************************)
(* Hazard-aware routing engine of the Dynamic Evacuation System.           *)
(*                                                                         *)
(* Two programs of the repository are modelled:                            *)
(*   - src/software/path_planning/path_planning.c: the graph store         *)
(*     (add_node, add_edge), the risk update (update_edge_risks) and the   *)
(*     A* planner (find_safe_path);                                        *)
(*   - src/software/main.c: the area map, find_nearest_exit,               *)
(*     find_evacuation_path, update_path_dynamically and the main loop.    *)
(*                                                                         *)
(* Number representation.  The C code computes in float.  The model keeps  *)
(* every quantity an exact integer in a fixed unit:                        *)
(*   coordinates and distances                                             *)
(*                    hundredths of a map unit (14.14 is 1414);            *)
(*   risk factors     numerators over RISK_DEN (risk 0.65 is 1300/2000);   *)
(*   g/f scores       hundredths times RISK_DEN, so that                   *)
(*                    distance * (1 + 10 * risk) stays an integer;         *)
(*   hazard levels    (main.c) the stored float in units of 2^-24.         *)
(* Float rounding below these units is not modelled; the inputs are chosen *)
(* so that the heuristic (a square root) is exact or far from every tie.   *)
(***************************************************************************)
EXTENDS Integers, Sequences, FiniteSets, TLC

VARIABLES
    graph,          \* path_planning.c:24  static graph_t graph
    path,           \* the caller's path_t object handed to find_safe_path
    ret,            \* return value of the last call on the planning module
    call,           \* the last call on the planning module: <<name, arguments...>>
    mall_map,       \* main.c:185  ShoppingMallMap mall_map
    evac_path,      \* main.c:209  EvacuationPath path (the active path)
    current_area,   \* main.c:200  int current_area
    step,           \* main.c:214  loop counter
    pc,             \* position of main.c's main()
    tick,           \* what the last replanning call did (result, calls it made)
    sys,            \* unnamed/part_003: locals and position of the system's main()
    race            \* update_edge_risks and find_safe_path in flight in two contexts

vars == <<graph, path, ret, call, mall_map, evac_path, current_area, step, pc, tick, sys, race>>

planVars == <<graph, path, ret, call>>
mallVars == <<mall_map, evac_path, current_area, step, pc, tick>>

(***************************************************************************)
(* Program constants and model bounds                                      *)
(***************************************************************************)

\* path_planning.h:41 (#define MAX_NODES 100) and :50 (#define MAX_EDGES 200),
\* scaled down so that the capacity checks of add_node and add_edge are
\* reached; the guards compare against them exactly as the code does.
MAX_NODES == 4
MAX_EDGES == 5

\* path_planning.h:30  MAX_PATH_LENGTH (MAP_WIDTH * MAP_HEIGHT)
MAX_PATH_LENGTH == 400

\* path_planning.c:201  divisor of the risk computation; the unit of risk factors
RISK_DEN == 2000

\* path_planning.c:314  risk_weight = 1.0 + 10.0 * risk_factor
RISK_K == 10

\* <float.h> FLT_MAX as used at path_planning.c:270: larger than every score
FLT_MAX == 2147483647

\* hundredths per map unit (the unit of coordinates and distances)
DIST_SCALE == 100

Max(a, b) == IF a > b THEN a ELSE b
Min(a, b) == IF a < b THEN a ELSE b

(***************************************************************************)
(* Graph store (path_planning.c)                                           *)
(***************************************************************************)

\* path_planning.c:27-33  memset(&graph, 0, sizeof(graph))
EmptyGraph == [nodes |-> <<>>, edges |-> <<>>]

\* a zeroed path_t (num_nodes 0)
EmptyPath == [num_nodes |-> 0, nodes |-> <<>>, total_distance |-> 0, total_risk |-> 0]

num_nodes(g) == Len(g.nodes)
num_edges(g) == Len(g.edges)

\* path_planning.c:92-97 and 135-142: a node with this id is stored
NodeExists(g, node_id) == \E i \in 1..num_nodes(g) : g.nodes[i].node_id = node_id

\* path_planning.c:120-125: an edge with this id is stored
EdgeExists(g, edge_id) == \E i \in 1..num_edges(g) : g.edges[i].edge_id = edge_id

\* add_node as it would be without the search for a stored node of this id
add_node_NoDuplicateCheck(g, node_id, area_id, x, y) ==
    IF num_nodes(g) >= MAX_NODES THEN [ret |-> -1, graph |-> g]
    ELSE [ret |-> 0,
          graph |-> [g EXCEPT !.nodes = Append(@,
                        [node_id |-> node_id, area_id |-> area_id, x |-> x, y |-> y])]]

\* path_planning.c:88-113
add_node(g, node_id, area_id, x, y) ==
    IF NodeExists(g, node_id) THEN [ret |-> -1, graph |-> g]
    ELSE IF num_nodes(g) >= MAX_NODES THEN [ret |-> -1, graph |-> g]
    ELSE [ret |-> 0,
          graph |-> [g EXCEPT !.nodes = Append(@,
                        [node_id |-> node_id, area_id |-> area_id, x |-> x, y |-> y])]]

\* add_edge as it would be without the search for its two end nodes
add_edge_NoEndpointCheck(g, edge_id, start_node, end_node, distance) ==
    IF EdgeExists(g, edge_id) THEN [ret |-> -1, graph |-> g]
    ELSE IF num_edges(g) >= MAX_EDGES THEN [ret |-> -1, graph |-> g]
    ELSE [ret |-> 0,
          graph |-> [g EXCEPT !.edges = Append(@,
                        [edge_id |-> edge_id, start_node |-> start_node,
                         end_node |-> end_node, distance |-> distance,
                         risk_factor |-> 0])]]

\* path_planning.c:116-158
add_edge(g, edge_id, start_node, end_node, distance) ==
    IF EdgeExists(g, edge_id) THEN [ret |-> -1, graph |-> g]
    ELSE IF num_edges(g) >= MAX_EDGES THEN [ret |-> -1, graph |-> g]
    ELSE IF ~NodeExists(g, start_node) \/ ~NodeExists(g, end_node)
         THEN [ret |-> -1, graph |-> g]
    ELSE [ret |-> 0,
          graph |-> [g EXCEPT !.edges = Append(@,
                        [edge_id |-> edge_id, start_node |-> start_node,
                         end_node |-> end_node, distance |-> distance,
                         risk_factor |-> 0])]]

RECURSIVE AreaFrom(_, _, _, _)
AreaFrom(g, node_id, j, area_id) ==
    IF j > num_nodes(g) THEN area_id
    ELSE AreaFrom(g, node_id, j + 1,
                  IF g.nodes[j].node_id = node_id THEN g.nodes[j].area_id ELSE area_id)

\* path_planning.c:171-181: the area id update_edge_risks looks up for an
\* end node of an edge (-1 when the node is not stored); it is not used after
EndpointArea(g, node_id) == AreaFrom(g, node_id, 1, -1)

\* the risk of a reading as it would be without the clamp of lines 208-209
RiskOfReading_Unclamped(tvoc_ppb, eco2_ppm) == tvoc_ppb + eco2_ppm

\* path_planning.c:201-209: (tvoc + eco2) / 2000.0 clamped to [0, 1], as a
\* numerator over RISK_DEN.  The operands are uint16_t promoted to int.
RiskOfReading(tvoc_ppb, eco2_ppm) ==
    LET start_risk == tvoc_ppb + eco2_ppm
        end_risk   == start_risk
        r          == IF start_risk > end_risk THEN start_risk ELSE end_risk
    IN  IF r > RISK_DEN THEN RISK_DEN ELSE IF r < 0 THEN 0 ELSE r

\* update_edge_risks as it would be if it stored the risk-weighted length
\* of an edge in its distance as well
update_edge_risks_WritesDistance(g, tvoc_ppb, eco2_ppm) ==
    [ret |-> 0,
     graph |-> [g EXCEPT !.edges =
                   [i \in 1..Len(@) |->
                       [@[i] EXCEPT !.risk_factor = RiskOfReading(tvoc_ppb, eco2_ppm),
                                    !.distance = @ + (@ * RiskOfReading(tvoc_ppb, eco2_ppm))
                                                        \div RISK_DEN]]]]

\* update_edge_risks as it would be if it added the reading's risk to the
\* stored risk factor instead of replacing it
update_edge_risks_Accumulating(g, tvoc_ppb, eco2_ppm) ==
    [ret |-> 0,
     graph |-> [g EXCEPT !.edges =
                   [i \in 1..Len(@) |->
                       [@[i] EXCEPT !.risk_factor =
                           Min(RISK_DEN, @ + RiskOfReading(tvoc_ppb, eco2_ppm))]]]]

\* path_planning.c:161-214 with a non-null reading: every edge gets the risk
\* of the reading (the endpoint areas are looked up and then not used)
update_edge_risks(g, tvoc_ppb, eco2_ppm) ==
    [ret |-> 0,
     graph |-> [g EXCEPT !.edges =
                   [i \in 1..Len(@) |->
                       [@[i] EXCEPT !.risk_factor = RiskOfReading(tvoc_ppb, eco2_ppm)]]]]

(***************************************************************************)
(* A* planner (path_planning.c:216-372)                                    *)
(* Array indices are 1-based here (C index + 1); -1 stays "not found".     *)
(***************************************************************************)

RECURSIVE SqrtSearch(_, _, _)
\* largest r in lo..hi with r * r <= v (lo * lo <= v < (hi + 1) * (hi + 1))
SqrtSearch(v, lo, hi) ==
    IF lo >= hi THEN lo
    ELSE LET mid == (lo + hi + 1) \div 2
         IN  IF mid * mid <= v THEN SqrtSearch(v, mid, hi) ELSE SqrtSearch(v, lo, mid - 1)

\* sqrt of a non-negative integer, rounded down
ISqrt(v) == SqrtSearch(v, 0, 46340)

\* path_planning.c:217-222: the straight-line distance between two stored
\* nodes, in score units (hundredths times RISK_DEN)
heuristic(g, current_node_idx, target_node_idx) ==
    LET dx == g.nodes[current_node_idx].x - g.nodes[target_node_idx].x
        dy == g.nodes[current_node_idx].y - g.nodes[target_node_idx].y
    IN  ISqrt(dx * dx + dy * dy) * RISK_DEN

RECURSIVE FirstIndexFrom(_, _, _)
FirstIndexFrom(g, node_id, i) ==
    IF i > num_nodes(g) THEN -1
    ELSE IF g.nodes[i].node_id = node_id THEN i
    ELSE FirstIndexFrom(g, node_id, i + 1)

\* path_planning.c:225-232: index of the first node with this id, or -1
find_node_index_by_id(g, node_id) == FirstIndexFrom(g, node_id, 1)

RECURSIVE ResolveFrom(_, _, _, _)
ResolveFrom(g, area_id, i, found) ==
    IF i > num_nodes(g) THEN found
    ELSE ResolveFrom(g, area_id, i + 1,
                     IF g.nodes[i].area_id = area_id THEN g.nodes[i].node_id ELSE found)

\* path_planning.c:237-247: the loop assigns on every match and does not
\* break, so the node id of the last node with this area is kept (-1: none)
ResolveArea(g, area_id) == ResolveFrom(g, area_id, 1, -1)

\* path_planning.c:269-279: scores and sets before the search
InitSearch(g, u_idx, v_idx) ==
    [g_score   |-> [i \in 1..num_nodes(g) |-> IF i = u_idx THEN 0 ELSE FLT_MAX],
     f_score   |-> [i \in 1..num_nodes(g) |->
                       IF i = u_idx THEN heuristic(g, u_idx, v_idx) ELSE FLT_MAX],
     prev_node_idx |-> [i \in 1..num_nodes(g) |-> -1],
     open_set  |-> [i \in 1..num_nodes(g) |-> i = u_idx],
     closed_set |-> [i \in 1..num_nodes(g) |-> FALSE],
     expanded  |-> 0]

RECURSIVE ScanLowest(_, _, _, _, _)
ScanLowest(g, st, i, min_f_score, current_idx) ==
    IF i > num_nodes(g) THEN current_idx
    ELSE IF st.open_set[i] /\ st.f_score[i] < min_f_score
         THEN ScanLowest(g, st, i + 1, st.f_score[i], i)
         ELSE ScanLowest(g, st, i + 1, min_f_score, current_idx)

\* the scan as it would be with <= in place of <: among the open nodes of
\* lowest f_score the last in array order is taken
LowestOpen_LastWins(g, st) ==
    LET open == {i \in 1..num_nodes(g) : st.open_set[i] /\ st.f_score[i] < FLT_MAX}
    IN  IF open = {} THEN -1
        ELSE CHOOSE i \in open :
                \A k \in open : \/ st.f_score[i] < st.f_score[k]
                                \/ (st.f_score[i] = st.f_score[k] /\ i >= k)

\* the scan as it would be with min_f_score starting at 0 instead of FLT_MAX
LowestOpen_ZeroSentinel(g, st) == ScanLowest(g, st, 1, 0, -1)

\* path_planning.c:283-290: the open node with the lowest f_score, the first
\* such node in array order (strict <), or -1 when no node is open
LowestOpen(g, st) == ScanLowest(g, st, 1, FLT_MAX, -1)

\* the cost of an edge as it would be without the risk term
EdgeCost_DistanceOnly(e) == e.distance * RISK_DEN

\* path_planning.c:314-315: weighted cost of an edge, in score units
EdgeCost(e) == e.distance * (RISK_DEN + RISK_K * e.risk_factor)

\* the neighbour loop as it would be if an edge could also be followed from
\* its end node to its start node
RelaxEdge_BothDirections(g, st, current_idx, j, v_idx) ==
    LET here == g.nodes[current_idx].node_id
    IN  IF g.edges[j].start_node # here /\ g.edges[j].end_node # here THEN st
        ELSE LET other == IF g.edges[j].start_node = here
                          THEN g.edges[j].end_node ELSE g.edges[j].start_node
                 neighbor_idx == find_node_index_by_id(g, other)
             IN  IF neighbor_idx = -1 \/ st.closed_set[neighbor_idx] THEN st
                 ELSE LET tentative_g_score == st.g_score[current_idx] + EdgeCost(g.edges[j])
                      IN  IF ~st.open_set[neighbor_idx]
                             \/ tentative_g_score < st.g_score[neighbor_idx]
                          THEN [st EXCEPT
                                  !.prev_node_idx[neighbor_idx] = current_idx,
                                  !.g_score[neighbor_idx] = tentative_g_score,
                                  !.f_score[neighbor_idx] =
                                      tentative_g_score + heuristic(g, neighbor_idx, v_idx),
                                  !.open_set[neighbor_idx] = TRUE]
                          ELSE st

\* path_planning.c:308-324: one iteration of the neighbour loop, edge j
RelaxEdge(g, st, current_idx, j, v_idx) ==
    IF g.edges[j].start_node # g.nodes[current_idx].node_id THEN st
    ELSE LET neighbor_idx == find_node_index_by_id(g, g.edges[j].end_node)
         IN  IF neighbor_idx = -1 \/ st.closed_set[neighbor_idx] THEN st
             ELSE LET tentative_g_score == st.g_score[current_idx] + EdgeCost(g.edges[j])
                  IN  IF ~st.open_set[neighbor_idx]
                         \/ tentative_g_score < st.g_score[neighbor_idx]
                      THEN [st EXCEPT
                              !.prev_node_idx[neighbor_idx] = current_idx,
                              !.g_score[neighbor_idx] = tentative_g_score,
                              !.f_score[neighbor_idx] =
                                  tentative_g_score + heuristic(g, neighbor_idx, v_idx),
                              !.open_set[neighbor_idx] = TRUE]
                      ELSE st

RECURSIVE ExploreFrom(_, _, _, _, _)
\* path_planning.c:307-325: for (j = 0; j < graph.num_edges; j++)
ExploreFrom(g, st, current_idx, j, v_idx) ==
    IF j > num_edges(g) THEN st
    ELSE ExploreFrom(g, RelaxEdge(g, st, current_idx, j, v_idx), current_idx, j + 1, v_idx)

\* path_planning.c:303-325: close the current node and relax its out-edges
Expand(g, st, current_idx, v_idx) ==
    ExploreFrom(g,
                [st EXCEPT !.open_set[current_idx] = FALSE,
                           !.closed_set[current_idx] = TRUE,
                           !.expanded = @ + 1],
                current_idx, 1, v_idx)

RECURSIVE SearchLoop(_, _, _)
\* path_planning.c:281-326: while (true); found is FALSE when the open set
\* ran empty (return -1 at line 295) and TRUE at the break of line 300
SearchLoop(g, st, v_idx) ==
    LET current_idx == LowestOpen(g, st)
    IN  IF current_idx = -1 THEN [found |-> FALSE, st |-> st]
        ELSE IF current_idx = v_idx THEN [found |-> TRUE, st |-> st]
        ELSE SearchLoop(g, Expand(g, st, current_idx, v_idx), v_idx)

RECURSIVE WalkBack(_, _, _)
\* path_planning.c:333-340: follow the parent links from the goal; the result
\* is the goal-to-start index list, or <<-1>> when MAX_PATH_LENGTH is hit
WalkBack(st, current_path_node_idx, temp) ==
    IF current_path_node_idx = -1 THEN temp
    ELSE IF Len(temp) >= MAX_PATH_LENGTH THEN <<-1>>
    ELSE WalkBack(st, st.prev_node_idx[current_path_node_idx],
                  Append(temp, current_path_node_idx))

RECURSIVE FirstEdgeFrom(_, _, _, _)
\* path_planning.c:359-365: index of the first edge joining the two ids in
\* this direction, or -1 (the loop then adds nothing)
FirstEdgeFrom(g, prev_node_id, current_node_id, j) ==
    IF j > num_edges(g) THEN -1
    ELSE IF g.edges[j].start_node = prev_node_id /\ g.edges[j].end_node = current_node_id
         THEN j
    ELSE FirstEdgeFrom(g, prev_node_id, current_node_id, j + 1)

RECURSIVE SumSegments(_, _, _, _)
\* path_planning.c:355-366: totals over the segments 2..Len(ids) of the route
SumSegments(g, ids, i, acc) ==
    IF i > Len(ids) THEN acc
    ELSE LET j == FirstEdgeFrom(g, ids[i - 1], ids[i], 1)
         IN  SumSegments(g, ids, i + 1,
                IF j = -1 THEN acc
                ELSE [total_distance |-> acc.total_distance + g.edges[j].distance,
                      total_risk |-> acc.total_risk + g.edges[j].risk_factor])

\* path_planning.h:18 and path_planning.c:351-352: MapNode_t keeps x and y
\* as int, so the float coordinate is truncated toward zero on assignment
FloatToInt(c) ==
    IF c >= 0 THEN (c \div DIST_SCALE) * DIST_SCALE
    ELSE -(((-c) \div DIST_SCALE) * DIST_SCALE)

\* the path_t as it would be written without reversing the index list
BuildPath_NotReversed(g, temp) ==
    LET n    == Len(temp)
        pn   == [i \in 1..n |->
                    [node_id |-> g.nodes[temp[i]].node_id,
                     x |-> FloatToInt(g.nodes[temp[i]].x),
                     y |-> FloatToInt(g.nodes[temp[i]].y),
                     area_id |-> g.nodes[temp[i]].area_id]]
        tot  == SumSegments(g, [i \in 1..n |-> pn[i].node_id], 2,
                            [total_distance |-> 0, total_risk |-> 0])
    IN  [num_nodes |-> n, nodes |-> pn,
         total_distance |-> tot.total_distance, total_risk |-> tot.total_risk]

\* path_planning.c:342-367: the path_t written on success, from the
\* goal-to-start index list
BuildPath(g, temp) ==
    LET n    == Len(temp)
        idxs == [i \in 1..n |-> temp[n + 1 - i]]
        pn   == [i \in 1..n |->
                    [node_id |-> g.nodes[idxs[i]].node_id,
                     x |-> FloatToInt(g.nodes[idxs[i]].x),
                     y |-> FloatToInt(g.nodes[idxs[i]].y),
                     area_id |-> g.nodes[idxs[i]].area_id]]
        tot  == SumSegments(g, [i \in 1..n |-> pn[i].node_id], 2,
                            [total_distance |-> 0, total_risk |-> 0])
    IN  [num_nodes |-> n, nodes |-> pn,
         total_distance |-> tot.total_distance, total_risk |-> tot.total_risk]

\* find_safe_path as it would be if it zeroed path->num_nodes on entry and
\* so left a shortened path behind on failure
find_safe_path_ClearsOnFailure(g, start_area_id, end_area_id, p) ==
    LET start_node_id == ResolveArea(g, start_area_id)
        end_node_id   == ResolveArea(g, end_area_id)
        cleared       == [p EXCEPT !.num_nodes = 0]
    IN  IF start_node_id = -1 \/ end_node_id = -1 THEN [ret |-> -1, path |-> cleared]
        ELSE LET u_idx == find_node_index_by_id(g, start_node_id)
                 v_idx == find_node_index_by_id(g, end_node_id)
                 s == SearchLoop(g, InitSearch(g, u_idx, v_idx), v_idx)
             IN  IF ~s.found THEN [ret |-> -1, path |-> cleared]
                 ELSE [ret |-> 0, path |-> BuildPath(g, WalkBack(s.st, v_idx, <<>>))]

\* path_planning.c:235-372: the return value and the caller's path object
\* after the call (p is the object before the call)
find_safe_path(g, start_area_id, end_area_id, p) ==
    LET start_node_id == ResolveArea(g, start_area_id)
        end_node_id   == ResolveArea(g, end_area_id)
    IN  IF start_node_id = -1 \/ end_node_id = -1 THEN [ret |-> -1, path |-> p]
        ELSE LET u_idx == find_node_index_by_id(g, start_node_id)
                 v_idx == find_node_index_by_id(g, end_node_id)
             IN  IF u_idx = -1 \/ v_idx = -1 THEN [ret |-> -1, path |-> p]
                 ELSE LET s == SearchLoop(g, InitSearch(g, u_idx, v_idx), v_idx)
                      IN  IF ~s.found THEN [ret |-> -1, path |-> p]
                          ELSE LET temp == WalkBack(s.st, v_idx, <<>>)
                               IN  IF temp = <<-1>> THEN [ret |-> -1, path |-> p]
                                   ELSE [ret |-> 0, path |-> BuildPath(g, temp)]

\* fabs of path_planning.c:497
Abs(v) == IF v >= 0 THEN v ELSE -v

\* a comparison that sends a tie to the horizontal axis
Direction_TieHorizontal(dx, dy) ==
    IF Abs(dx) >= Abs(dy) THEN (IF dx > 0 THEN 0 ELSE 2)
    ELSE (IF dy > 0 THEN 3 ELSE 1)

\* path_planning.c:497-511: 0 East, 1 North, 2 West, 3 South
Direction(dx, dy) ==
    IF Abs(dx) > Abs(dy) THEN (IF dx > 0 THEN 0 ELSE 2)
    ELSE (IF dy > 0 THEN 3 ELSE 1)

\* a translator that checks the pointer only and reads the zeroed slots of a
\* path shorter than two nodes
get_direction_from_path_NoLengthCheck(path_is_null, p) ==
    IF path_is_null THEN -1
    ELSE LET at(i) == IF i <= Len(p.nodes) THEN p.nodes[i] ELSE [x |-> 0, y |-> 0]
         IN  Direction(at(2).x - at(1).x, at(2).y - at(1).y)

\* path_planning.c:476-512.  path_is_null is path == NULL, p the object the
\* pointer names otherwise.  x and y of a path node are ints
\* (path_planning.h:18), here whole multiples of DIST_SCALE; converted to
\* float and subtracted they stay exact below 2^24, which every map here is
get_direction_from_path(path_is_null, p) ==
    IF path_is_null \/ p.num_nodes < 2 THEN -1
    ELSE LET x1 == p.nodes[1].x
             y1 == p.nodes[1].y
             x2 == p.nodes[2].x
             y2 == p.nodes[2].y
             dx == x2 - x1
             dy == y2 - y1
         IN  Direction(dx, dy)



(***************************************************************************)
(* Map loader (path_planning.c:36-85)                                      *)
(* A file is [readable, lines]; a line is <<"NODES">>, <<"EDGES">>,        *)
(* <<"node", id, area, x, y>>, <<"edge", id, start, end, distance>> (what  *)
(* its author wrote) or <<"junk">> (text no sscanf format matches).        *)
(***************************************************************************)

\* path_planning.c:61: sscanf(line, "%d %d %f %f"): a record line of either
\* kind has four numbers, so both match; an edge line read as a node gives
\* node_id = edge id, area_id = start, x = end (map units), y = distance
ScanNode(line) ==
    IF line[1] = "node" THEN <<line[2], line[3], line[4], line[5]>>
    ELSE IF line[1] = "edge" THEN <<line[2], line[3], line[4] * DIST_SCALE, line[5]>>
    ELSE <<>>

\* path_planning.c:72: sscanf(line, "%d %d %d %f"): a node line whose x is
\* written as a whole number reads as edge_id = node id, start = area,
\* end = x (map units), distance = y
ScanEdge(line) ==
    IF line[1] = "edge" THEN <<line[2], line[3], line[4], line[5]>>
    ELSE IF line[1] = "node" THEN <<line[2], line[3], line[4] \div DIST_SCALE, line[5]>>
    ELSE <<>>

\* the edge loop as it would be with an if in place of the while: only the
\* line at i is read
ReadEdges_FirstLineOnly(g, lines, i) ==
    IF i > Len(lines) THEN [ret |-> 0, graph |-> g]
    ELSE LET f == ScanEdge(lines[i])
         IN  IF f = <<>> THEN [ret |-> 0, graph |-> g]
             ELSE LET r == add_edge(g, f[1], f[2], f[3], f[4])
                  IN  IF r.ret # 0 THEN [ret |-> -1, graph |-> r.graph]
                      ELSE [ret |-> 0, graph |-> r.graph]

RECURSIVE ReadEdges(_, _, _)
\* path_planning.c:71-79: the edge loop, from line i to the end of the file
ReadEdges(g, lines, i) ==
    IF i > Len(lines) THEN [ret |-> 0, graph |-> g]
    ELSE LET f == ScanEdge(lines[i])
         IN  IF f = <<>> THEN ReadEdges(g, lines, i + 1)
             ELSE LET r == add_edge(g, f[1], f[2], f[3], f[4])
                  IN  IF r.ret # 0 THEN [ret |-> -1, graph |-> r.graph]
                      ELSE ReadEdges(r.graph, lines, i + 1)

RECURSIVE ReadNodes(_, _, _)
\* path_planning.c:56-68: the node loop, left at an EDGES line
ReadNodes(g, lines, i) ==
    IF i > Len(lines) THEN ReadEdges(g, lines, i)
    ELSE IF lines[i][1] = "EDGES" THEN ReadEdges(g, lines, i + 1)
    ELSE LET f == ScanNode(lines[i])
         IN  IF f = <<>> THEN ReadNodes(g, lines, i + 1)
             ELSE LET r == add_node(g, f[1], f[2], f[3], f[4])
                  IN  IF r.ret # 0 THEN [ret |-> -1, graph |-> r.graph]
                      ELSE ReadNodes(r.graph, lines, i + 1)

\* path_planning.c:36-85
load_map_data(g, file) ==
    IF ~file.readable THEN [ret |-> -1, graph |-> g]
    ELSE IF Len(file.lines) = 0 \/ file.lines[1][1] # "NODES" THEN [ret |-> -1, graph |-> g]
    ELSE ReadNodes(g, file.lines, 2)

(***************************************************************************)
(* Calls on the planning module.  Each action is one call by the caller    *)
(* (unnamed/part_003 system_init, the map loader's caller, the test main   *)
(* of path_planning.c:386-469); call and ret log it.                       *)
(***************************************************************************)

\* path_planning.c:27-33
PathPlanningInit ==
    /\ graph' = EmptyGraph
    /\ ret' = 0
    /\ call' = <<"path_planning_init">>
    /\ path' = EmptyPath
    /\ UNCHANGED <<mallVars, sys, race>>

\* path_planning.c:88-113
AddNode(node_id, area_id, x, y) ==
    LET r == add_node(graph, node_id, area_id, x, y)
    IN  /\ graph' = r.graph
        /\ ret' = r.ret
        /\ call' = <<"add_node", node_id>>
        /\ path' = EmptyPath
        /\ UNCHANGED <<mallVars, sys, race>>

\* path_planning.c:116-158
AddEdge(edge_id, start_node, end_node, distance) ==
    LET r == add_edge(graph, edge_id, start_node, end_node, distance)
    IN  /\ graph' = r.graph
        /\ ret' = r.ret
        /\ call' = <<"add_edge", edge_id, start_node, end_node>>
        /\ path' = EmptyPath
        /\ UNCHANGED <<mallVars, sys, race>>

\* path_planning.c:161-214
UpdateEdgeRisks(tvoc_ppb, eco2_ppm) ==
    LET r == update_edge_risks(graph, tvoc_ppb, eco2_ppm)
    IN  /\ graph' = r.graph
        /\ ret' = r.ret
        /\ call' = <<"update_edge_risks", tvoc_ppb, eco2_ppm>>
        /\ path' = EmptyPath
        /\ UNCHANGED <<mallVars, sys, race>>

\* path_planning.c:36-85
LoadMapData(file) ==
    LET r == load_map_data(graph, file)
    IN  /\ graph' = r.graph
        /\ ret' = r.ret
        /\ call' = <<"load_map_data", file>>
        /\ path' = EmptyPath
        /\ UNCHANGED <<mallVars, sys, race>>

\* path_planning.c:235-372, on the path object of the caller's last query
FindSafePath(start_area_id, end_area_id) ==
    LET r == find_safe_path(graph, start_area_id, end_area_id, path)
    IN  /\ path' = r.path
        /\ ret' = r.ret
        /\ call' = <<"find_safe_path", start_area_id, end_area_id>>
        /\ UNCHANGED <<graph, mallVars, sys, race>>

\* path_planning.c:235-372 with the value of time(NULL) at line 346: on
\* success the timestamp is written with the other fields
find_safe_path_at(g, start_area_id, end_area_id, p, now) ==
    LET r == find_safe_path(g, start_area_id, end_area_id, p)
    IN  IF r.ret # 0 THEN r
        ELSE [ret |-> 0,
              path |-> [num_nodes |-> r.path.num_nodes, nodes |-> r.path.nodes,
                        total_distance |-> r.path.total_distance,
                        total_risk |-> r.path.total_risk, timestamp |-> now]]

\* path_planning.c:235-372 at clock value now, on the caller's path object
FindSafePathAt(start_area_id, end_area_id, now) ==
    LET r == find_safe_path_at(graph, start_area_id, end_area_id, path, now)
    IN  /\ path' = r.path
        /\ ret' = r.ret
        /\ call' = <<"find_safe_path", start_area_id, end_area_id, now>>
        /\ UNCHANGED <<graph, mallVars, sys, race>>

\* path_planning.c:476-512, called as ui_update does (ui_module.c:38) on the
\* caller's path object, or on a null pointer
GetDirectionFromPath(path_is_null) ==
    /\ ret' = get_direction_from_path(path_is_null, path)
    /\ call' = <<"get_direction_from_path", path_is_null>>
    /\ UNCHANGED <<graph, path, mallVars, sys, race>>

\* path_planning.c:375-380: memset of the graph
PathPlanningCleanup ==
    /\ graph' = EmptyGraph
    /\ call' = <<"path_planning_cleanup">>
    /\ path' = EmptyPath
    /\ UNCHANGED <<ret, mallVars, sys, race>>

(***************************************************************************)
(* The evacuation demo (software/main.c): map files, exit search, planner  *)
(* and the dynamic path update.                                            *)
(*                                                                         *)
(* A hazard level is a C float, held as its numerator over 2^24 (one ulp   *)
(* of a float in [0.5, 1)); a hazard level in a file is a decimal text,    *)
(* held in thousandths.  Distances are hundredths, as in the planner.      *)
(***************************************************************************)

\* main.c:7 (#define MAX_AREAS 100) and :8 (#define MAX_CONNECTIONS 500),
\* scaled down; the read loops compare against them as the code does
MAX_AREAS == 3
MAX_CONNECTIONS == 2

\* main.c:214  for (int step = 0; step < 5; ++step)
EVAC_STEPS == 5

\* main.c:200  int current_area = 101
START_AREA == 101

\* one unit in the last place of a float in [0.5, 1) is 1 / FLOAT_ONE
FLOAT_ONE == 16777216

\* main.c:72  sscanf "%f" into float hazard_level: the float nearest to the
\* decimal milli/1000 (round to nearest; no decimal used here lies half way)
strtof(milli) ==
    LET scaled == milli * (FLOAT_ONE \div 8)
        q == scaled \div 125
        r == scaled % 125
    IN  IF 2 * r >= 125 THEN q + 1 ELSE q

\* main.c:146  hazard_level > 0.8: the float is widened to double and
\* compared with the double nearest to 0.8, which lies above 4/5 by less
\* than any float differs from 4/5
Exceeds(hazard_level) == 5 * hazard_level > 4 * FLOAT_ONE

\* main.c:186  memset(&mall_map, 0, ...)
ZeroMap == [areas |-> <<>>, connections |-> <<>>]

\* main.c:118  EvacuationPath path = {0}
ZeroPath == [area_ids |-> <<>>, length |-> 0, total_distance |-> 0]

area_count(map) == Len(map.areas)
connection_count(map) == Len(map.connections)

RECURSIVE ReadAreas(_, _, _)
\* main.c:70-76: lines are read while area_count < MAX_AREAS; a line that
\* does not scan as id,name,is_exit,hazard is skipped
ReadAreas(areas, lines, i) ==
    IF i > Len(lines) \/ Len(areas) >= MAX_AREAS THEN areas
    ELSE IF lines[i][1] = "area"
         THEN ReadAreas(Append(areas, [id |-> lines[i][2], is_exit |-> lines[i][3],
                                       hazard_level |-> strtof(lines[i][4])]),
                        lines, i + 1)
         ELSE ReadAreas(areas, lines, i + 1)

\* main.c:60-80
load_areas_from_file(map, file) ==
    IF ~file.readable THEN [ret |-> 0, map |-> map]
    ELSE [ret |-> 1, map |-> [map EXCEPT !.areas = ReadAreas(<<>>, file.lines, 1)]]

RECURSIVE ReadConnections(_, _, _)
\* main.c:93-99
ReadConnections(conns, lines, i) ==
    IF i > Len(lines) \/ Len(conns) >= MAX_CONNECTIONS THEN conns
    ELSE IF lines[i][1] = "conn"
         THEN ReadConnections(Append(conns, [from |-> lines[i][2], to |-> lines[i][3],
                                             distance |-> lines[i][4],
                                             blocked |-> lines[i][5]]),
                              lines, i + 1)
         ELSE ReadConnections(conns, lines, i + 1)

\* main.c:83-103
load_connections_from_file(map, file) ==
    IF ~file.readable THEN [ret |-> 0, map |-> map]
    ELSE [ret |-> 1,
          map |-> [map EXCEPT !.connections = ReadConnections(<<>>, file.lines, 1)]]

RECURSIVE FirstExitFrom(_, _)
FirstExitFrom(map, i) ==
    IF i > area_count(map) THEN -1
    ELSE IF map.areas[i].is_exit # 0 THEN map.areas[i].id
    ELSE FirstExitFrom(map, i + 1)

\* main.c:106-114: the first area flagged as exit; current_area is not read
find_nearest_exit(map, area) == FirstExitFrom(map, 1)

RECURSIVE FirstConnectionFrom(_, _, _, _)
\* main.c:127-135: distance of the first connection joining a and b in
\* either direction (blocked is not read), 0 when there is none
FirstConnectionFrom(map, a, b, j) ==
    IF j > connection_count(map) THEN 0
    ELSE IF \/ (map.connections[j].from = a /\ map.connections[j].to = b)
            \/ (map.connections[j].from = b /\ map.connections[j].to = a)
         THEN map.connections[j].distance
         ELSE FirstConnectionFrom(map, a, b, j + 1)

\* main.c:117-139: always the two-area path start, end
find_evacuation_path(map, start, end) ==
    [area_ids |-> <<start, end>>,
     length |-> 2,
     total_distance |-> FirstConnectionFrom(map, start, end, 1)]

\* main.c:144-152: some area of the path is stored with a hazard level that
\* compares greater than 0.8
HazardOnPath(map, p) ==
    \E i \in 1..p.length : \E j \in 1..area_count(map) :
        map.areas[j].id = p.area_ids[i] /\ Exceeds(map.areas[j].hazard_level)

\* main.c:142-156
update_path_dynamically(map, p, area) ==
    IF HazardOnPath(map, p)
    THEN find_evacuation_path(map, area, find_nearest_exit(map, area))
    ELSE p

\* main.c:226-236
path_changed(updated_path, p) ==
    \/ updated_path.length # p.length
    \/ \E i \in 1..p.length : updated_path.area_ids[i] # p.area_ids[i]

\* what one pass of the loop body did: the inputs of update_path_dynamically,
\* whether it replanned, how often it called find_nearest_exit and
\* find_evacuation_path, the exit it chose and the path it returned
NoTick ==
    [before |-> ZeroPath, current |-> 0, triggered |-> FALSE, exit_searches |-> 0,
     planner_calls |-> 0, nearest_exit |-> 0, result |-> ZeroPath]

TickOf(map, p, area) ==
    [before |-> p,
     current |-> area,
     triggered |-> HazardOnPath(map, p),
     exit_searches |-> IF HazardOnPath(map, p) THEN 1 ELSE 0,
     planner_calls |-> IF HazardOnPath(map, p) THEN 1 ELSE 0,
     nearest_exit |-> IF HazardOnPath(map, p) THEN find_nearest_exit(map, area) ELSE 0,
     result |-> update_path_dynamically(map, p, area)]

\* main.c:222-244: update the path from area and install the result when it
\* differs from the active path
LoopBody(area) ==
    LET updated_path == update_path_dynamically(mall_map, evac_path, area)
    IN  /\ tick' = TickOf(mall_map, evac_path, area)
        /\ evac_path' = IF path_changed(updated_path, evac_path)
                        THEN updated_path ELSE evac_path

\* main.c:184-193: both files are loaded; main returns 1 when either fails
MainLoad(areas_file, connections_file) ==
    /\ pc = "start"
    /\ LET a == load_areas_from_file(mall_map, areas_file)
           c == load_connections_from_file(a.map, connections_file)
       IN  IF a.ret = 0 THEN pc' = "abort" /\ mall_map' = a.map
           ELSE IF c.ret = 0 THEN pc' = "abort" /\ mall_map' = c.map
           ELSE pc' = "loaded" /\ mall_map' = c.map
    /\ UNCHANGED <<evac_path, current_area, step, tick, planVars, sys, race>>

\* main.c:200-211: the first planning; main returns 1 when there is no exit
MainPlan ==
    /\ pc = "loaded"
    /\ LET nearest_exit == find_nearest_exit(mall_map, current_area)
       IN  IF nearest_exit = -1
           THEN pc' = "abort" /\ UNCHANGED evac_path
           ELSE /\ pc' = "moving"
                /\ evac_path' = find_evacuation_path(mall_map, current_area, nearest_exit)
    /\ UNCHANGED <<mall_map, current_area, step, tick, planVars, sys, race>>

\* main.c:214-249: one pass of the loop: move along the path, update it
MainStep ==
    /\ pc = "moving"
    /\ step < EVAC_STEPS
    /\ LET moved == IF evac_path.length > 0
                    THEN evac_path.area_ids[IF step + 1 < evac_path.length
                                            THEN step + 2 ELSE evac_path.length]
                    ELSE current_area
       IN  /\ current_area' = moved
           /\ LoopBody(moved)
    /\ step' = step + 1
    /\ UNCHANGED <<mall_map, pc, planVars, sys, race>>

\* main.c:251-254
MainStop ==
    /\ pc = "moving"
    /\ step >= EVAC_STEPS
    /\ pc' = "done"
    /\ UNCHANGED <<mall_map, evac_path, current_area, step, tick, planVars, sys, race>>

(***************************************************************************)
(* The system's main() (unnamed/part_003), its environmental fusion         *)
(* (data_fusion.c) and its guidance output (ui_module.c).  The motion       *)
(* reading and the orientation filter feed no decision of the loop and are  *)
(* left out.                                                                *)
(*                                                                          *)
(* The MQ-2 voltage is a float made from a 16-bit ADC count (one count is   *)
(* 2.048/32767 V) and is held as that count; a concentration is held in     *)
(* hundredths of a ppm, or as NaN.                                          *)
(***************************************************************************)

\* loop iterations explored (the loop itself is while (1), part_003:69)
MaxSysTicks == 2

\* part_003:110 thresholds (50.0 ppm in hundredths, 1000 ppm) and :112
MQ2_ALERT == 5000
ECO2_ALERT == 1000
ALERT_MS == 500

NaN == [nan |-> TRUE, ppm |-> 0]
Ppm(v) == [nan |-> FALSE, ppm |-> v]

\* data_fusion.c:64-68, in thousandths of a kOhm (RL = 10 kOhm):
\* 10 * (2.048 - v) / v with v = raw_adc * 2.048 / 32767
mq2_get_rs(raw_adc) ==
    IF raw_adc = 0 THEN 0
    ELSE IF raw_adc > 0 THEN (10000 * (32767 - raw_adc)) \div raw_adc
    ELSE -((10000 * (32767 - raw_adc)) \div (-raw_adc))

\* data_fusion.c:82-93: 100 * (rs / 9.83) ^ -2.5.  pow of a negative base
\* with a fractional exponent is NaN.  Fixed point to the thousandth, for
\* rs up to 455 kOhm (counts of 705 and more)
mq2_get_concentration(rs) ==
    IF rs = 0 THEN Ppm(0)
    ELSE IF rs < 0 THEN NaN
    ELSE LET rs_ro == (rs * 100) \div 983
             sq    == (rs_ro * rs_ro) \div 1000
             root  == ISqrt(rs_ro * 1000)
             p25   == (sq * root) \div 1000
         IN  Ppm(10000000 \div Max(p25, 1))

\* data_fusion.c:111-120
fuse_environmental_data(sgp30_tvoc, sgp30_eco2, mq2_raw_adc) ==
    [tvoc_ppb |-> sgp30_tvoc,
     eco2_ppm |-> sgp30_eco2,
     mq2_voltage |-> mq2_raw_adc,
     mq2_concentration |-> mq2_get_concentration(mq2_get_rs(mq2_raw_adc))]

\* part_003:97  (int16_t)(env_data.mq2_voltage / (2.048 / 32767.0)): the
\* float voltage was rounded, so the quotient is the count or just short of
\* it, and the cast truncates toward zero.  Both results occur (14264 gives
\* 14264, 14265 gives 14264); which one depends on the rounding of the float
RawOfVoltage(count) ==
    IF count = 0 THEN {0}
    ELSE IF count > 0 THEN {count - 1, count}
    ELSE {count, count + 1}

\* part_003:90  mq2_voltage * 100.0, in hundredths
PlaceholderConcentration(count) ==
    IF count >= 0 THEN Ppm((count * 20480) \div 32767)
    ELSE Ppm(-(((-count) * 20480) \div 32767))

\* an alert test that looks at the gas concentration only
AlertCondition_GasOnly(env_data) ==
    ~env_data.mq2_concentration.nan /\ env_data.mq2_concentration.ppm > MQ2_ALERT

\* part_003:110
AlertCondition(env_data) ==
    \/ (~env_data.mq2_concentration.nan /\ env_data.mq2_concentration.ppm > MQ2_ALERT)
    \/ env_data.eco2_ppm > ECO2_ALERT

\* ui_module.c:33-66: the line written to the display
ui_update(path_is_null, p) ==
    IF ~path_is_null /\ p.num_nodes > 0
    THEN LET direction == get_direction_from_path(path_is_null, p)
         IN  CASE direction = 0 -> ">"
               [] direction = 1 -> "^"
               [] direction = 2 -> "<"
               [] direction = 3 -> "v"
               [] OTHER -> "?"
    ELSE "NO PATH"

\* what main()'s locals can hold before anything is stored in them
\* (part_003:59-63 declare them without initialiser)
IndeterminateEnv ==
    {[tvoc_ppb |-> 0, eco2_ppm |-> e, mq2_voltage |-> c, mq2_concentration |-> Ppm(0)] :
        e \in {0, 2000}, c \in {0, 14500}}

IndeterminatePath ==
    {EmptyPath,
     [num_nodes |-> 1,
      nodes |-> <<[node_id |-> 0, x |-> 0, y |-> 0, area_id |-> 0]>>,
      total_distance |-> 0, total_risk |-> 0],
     [num_nodes |-> 2,
      nodes |-> <<[node_id |-> 0, x |-> 0, y |-> 0, area_id |-> 0],
                  [node_id |-> 0, x |-> 100, y |-> 0, area_id |-> 0]>>,
      total_distance |-> 0, total_risk |-> 0]}

\* SGP30 readings offered by the driver: <<tvoc_ppb, eco2_ppm>>
Sgp30Samples == {<<0, 400>>, <<500, 1000>>, <<500, 1001>>}

\* ADC counts offered by the driver; -1 is also its error value
\* (ads1115_driver.h:68)
AdcSamples == {-1, 0, 14000, 14500}

\* part_003:48-66 and 124-162: main() up to the loop.  Each driver init may
\* fail (the error is printed and main() goes on); path_planning_init
\* empties the graph.
SystemInit ==
    /\ sys.pc = "init"
    /\ \E sgp30 \in BOOLEAN, ads \in BOOLEAN :
          sys' = [sys EXCEPT !.pc = "read", !.sgp30_ok = sgp30, !.ads_ok = ads,
                             !.done = <<"path_planning_init">>]
    /\ graph' = EmptyGraph
    /\ ret' = 0
    /\ call' = <<"path_planning_init">>
    /\ UNCHANGED <<path, mallVars, race>>

\* part_003:71-93: step 1 of the loop.  The ADC is read twice, once for the
\* test against -1 and once for the value.
ReadSensors ==
    /\ sys.pc = "read"
    /\ \E sgp30_read \in Sgp30Samples \cup {<<-1>>}, adc1 \in AdcSamples, adc2 \in AdcSamples :
          LET e1 == IF sys.sgp30_ok /\ sgp30_read # <<-1>>
                    THEN [sys.env_data EXCEPT !.tvoc_ppb = sgp30_read[1],
                                              !.eco2_ppm = sgp30_read[2]]
                    ELSE sys.env_data
              e2 == IF sys.ads_ok /\ adc1 # -1
                    THEN [e1 EXCEPT !.mq2_voltage = adc2,
                                    !.mq2_concentration = PlaceholderConcentration(adc2)]
                    ELSE e1
          IN  sys' = [sys EXCEPT !.pc = "fuse", !.env_data = e2,
                                 !.done = <<"read_sensors">>, !.alert = 0]
    /\ UNCHANGED <<planVars, mallVars, race>>

\* part_003:95-97: step 2
Fuse ==
    /\ sys.pc = "fuse"
    /\ \E raw \in RawOfVoltage(sys.env_data.mq2_voltage) :
          sys' = [sys EXCEPT
                     !.pc = "ui",
                     !.env_data = fuse_environmental_data(sys.env_data.tvoc_ppb,
                                                          sys.env_data.eco2_ppm, raw),
                     !.done = sys.done \o <<"fuse_motion_data", "fuse_environmental_data">>]
    /\ UNCHANGED <<planVars, mallVars, race>>

\* part_003:99-107: step 3 is a comment, step 4 shows evacuation_path
UiUpdate ==
    /\ sys.pc = "ui"
    /\ sys' = [sys EXCEPT
                  !.pc = "alert",
                  !.oled = ui_update(FALSE, sys.evacuation_path),
                  !.done = sys.done \o
                              (IF sys.evacuation_path.num_nodes > 0
                               THEN <<"ui_update", "get_direction_from_path">>
                               ELSE <<"ui_update">>)]
    /\ UNCHANGED <<planVars, mallVars, race>>

\* part_003:109-113 with ui_module.c:68-76: step 5
CheckAlert ==
    /\ sys.pc = "alert"
    /\ sys' = IF AlertCondition(sys.env_data)
              THEN [sys EXCEPT !.pc = "sleep", !.alert = ALERT_MS,
                               !.done = sys.done \o <<"ui_trigger_alert">>]
              ELSE [sys EXCEPT !.pc = "sleep"]
    /\ UNCHANGED <<planVars, mallVars, race>>

\* part_003:115-116: usleep and back to the top of the loop
Sleep ==
    /\ sys.pc = "sleep"
    /\ sys.ticks < MaxSysTicks
    /\ sys' = [sys EXCEPT !.pc = "read", !.ticks = sys.ticks + 1]
    /\ UNCHANGED <<planVars, mallVars, race>>

\* part_003's variables while main() is not running.  planned says that
\* find_safe_path has written evacuation_path; main() has no statement that
\* writes it (the call at part_003:103 is a comment)
SysIdle ==
    sys = [pc |-> "off", sgp30_ok |-> FALSE, ads_ok |-> FALSE,
           env_data |-> [tvoc_ppb |-> 0, eco2_ppm |-> 0, mq2_voltage |-> 0,
                         mq2_concentration |-> Ppm(0)],
           evacuation_path |-> EmptyPath, planned |-> FALSE, oled |-> "",
           alert |-> 0, done |-> <<>>, ticks |-> 0]

\* part_003:48-63: main() entered, its locals indeterminate
SysStart ==
    \E e \in IndeterminateEnv, p \in IndeterminatePath :
        sys = [pc |-> "init", sgp30_ok |-> FALSE, ads_ok |-> FALSE,
               env_data |-> e, evacuation_path |-> p, planned |-> FALSE,
               oled |-> "", alert |-> 0, done |-> <<>>, ticks |-> 1]

(***************************************************************************)
(* update_edge_risks and find_safe_path called from two execution contexts  *)
(* on the one graph (path_planning.c:24 is a file-scope static and neither  *)
(* function takes a lock or a copy).  The writer is cut at each iteration   *)
(* of its edge loop; the reader is cut once, between its search and its     *)
(* totals loop.                                                             *)
(***************************************************************************)

\* path_planning.c:235-340: find_safe_path up to the reconstructed index
\* list (goal first); temp is <<>> when the call returns -1 before that
find_safe_path_search(g, start_area_id, end_area_id) ==
    LET start_node_id == ResolveArea(g, start_area_id)
        end_node_id   == ResolveArea(g, end_area_id)
    IN  IF start_node_id = -1 \/ end_node_id = -1 THEN [ret |-> -1, temp |-> <<>>]
        ELSE LET u_idx == find_node_index_by_id(g, start_node_id)
                 v_idx == find_node_index_by_id(g, end_node_id)
             IN  IF u_idx = -1 \/ v_idx = -1 THEN [ret |-> -1, temp |-> <<>>]
                 ELSE LET s == SearchLoop(g, InitSearch(g, u_idx, v_idx), v_idx)
                      IN  IF ~s.found THEN [ret |-> -1, temp |-> <<>>]
                          ELSE LET temp == WalkBack(s.st, v_idx, <<>>)
                               IN  IF temp = <<-1>> THEN [ret |-> -1, temp |-> <<>>]
                                   ELSE [ret |-> 0, temp |-> temp]

\* path_planning.c:206-210 for the edge at index i (1-based here)
WriteEdgeRisk(g, i, risk) ==
    [g EXCEPT !.edges[i].risk_factor = risk]

\* path_planning.c:169-210 run to its end: every edge holds the risk
AllWritten(g, risk) ==
    [g EXCEPT !.edges = [i \in 1..num_edges(g) |-> [g.edges[i] EXCEPT !.risk_factor = risk]]]

\* no call in flight in either context.  old is the graph when the update
\* in flight began, seen the graph the last search read, mid whether the
\* search loop ran on a graph that was neither old nor the finished update
RaceIdle ==
    race = [upd_pc |-> "idle", upd_i |-> 0, upd_risk |-> 0, old |-> EmptyGraph,
            plan_pc |-> "idle", temp |-> <<>>, seen |-> EmptyGraph, mid |-> FALSE]

\* path_planning.c:161-167 and 201-205: update_edge_risks entered with a
\* reading, the risk computed, the edge loop not yet started
UpdateBegin(tvoc_ppb, eco2_ppm) ==
    /\ race.upd_pc = "idle"
    /\ race' = [race EXCEPT !.upd_pc = "loop", !.upd_i = 1,
                            !.upd_risk = RiskOfReading(tvoc_ppb, eco2_ppm),
                            !.old = graph]
    /\ UNCHANGED <<planVars, mallVars, sys>>

\* path_planning.c:169-210: one iteration of the edge loop
UpdateStep ==
    /\ race.upd_pc = "loop"
    /\ race.upd_i <= num_edges(graph)
    /\ graph' = WriteEdgeRisk(graph, race.upd_i, race.upd_risk)
    /\ race' = [race EXCEPT !.upd_i = race.upd_i + 1]
    /\ UNCHANGED <<path, ret, call, mallVars, sys>>

\* path_planning.c:169 and 212-213: the loop ends, the call returns 0
UpdateEnd ==
    /\ race.upd_pc = "loop"
    /\ race.upd_i > num_edges(graph)
    /\ race' = [race EXCEPT !.upd_pc = "idle", !.upd_i = 0]
    /\ UNCHANGED <<planVars, mallVars, sys>>

\* path_planning.c:235-340: find_safe_path from entry to the end of the
\* reconstruction; a failure returns at once
PlanSearch(start_area_id, end_area_id) ==
    /\ race.plan_pc = "idle"
    /\ LET r == find_safe_path_search(graph, start_area_id, end_area_id)
           m == /\ ResolveArea(graph, start_area_id) # -1
                /\ ResolveArea(graph, end_area_id) # -1
                /\ race.upd_pc = "loop"
                /\ graph # race.old
                /\ graph # AllWritten(race.old, race.upd_risk)
       IN  /\ race' = [race EXCEPT !.plan_pc = IF r.ret = -1 THEN "idle" ELSE "totals",
                                   !.temp = r.temp, !.seen = graph, !.mid = m]
           /\ ret' = r.ret
    /\ call' = <<"find_safe_path", start_area_id, end_area_id>>
    /\ UNCHANGED <<graph, path, mallVars, sys>>

\* path_planning.c:342-371: the path object is filled, the totals read from
\* the graph as it is now, and the call returns 0
PlanTotals ==
    /\ race.plan_pc = "totals"
    /\ path' = BuildPath(graph, race.temp)
    /\ ret' = 0
    /\ race' = [race EXCEPT !.plan_pc = "idle"]
    /\ UNCHANGED <<graph, call, mallVars, sys>>

\* main.c's variables while only the planning module runs
MallIdle ==
    /\ mall_map = ZeroMap
    /\ evac_path = ZeroPath
    /\ current_area = 0
    /\ step = 0
    /\ pc = "idle"
    /\ tick = NoTick

\* the planning module after static initialisation (path_planning.c:24) with
\* a zeroed path object in the caller
PlanInit ==
    /\ graph = EmptyGraph
    /\ path = EmptyPath
    /\ ret = 0
    /\ call = <<"start">>

Init == PlanInit /\ MallIdle /\ SysIdle /\ RaceIdle

(***************************************************************************)
(* Spec: the planner on small maps.  The caller offers nodes in id order   *)
(* (node k on a corner of a 3-4 rectangle, so every straight-line distance *)
(* is a whole number) and edges in id order from a catalogue of directed   *)
(* pairs, each with either distance; it takes a fresh path object after    *)
(* every change of the graph.                                              *)
(***************************************************************************)

\* node ids offered to add_node
MaxNodeId == 3
\* edge ids offered to add_edge
MaxEdgeId == 4

NodeIds == 1..MaxNodeId
EdgeIds == 1..MaxEdgeId

\* areas offered for a node: its own or, from node 3 on, the area of node 1
AreasOf(node_id) == IF node_id >= 3 THEN {100 + node_id, 101} ELSE {100 + node_id}
\* areas asked of find_safe_path; no node has area 109
QueryAreas == {101, 102, 109}

\* coordinates of the nodes offered (hundredths): (0,0) (3,0) (0,4) (3,4) ...
NodeX(node_id) == IF node_id % 2 = 0 THEN 300 ELSE 0
NodeY(node_id) == IF node_id >= 3 THEN 400 ELSE 0

\* endpoints of the edges offered, by edge id
EdgeCatalogue ==
    << <<1, 3>>, <<3, 2>>, <<1, 2>>, <<2, 1>>, <<2, 3>>, <<1, 2>>, <<3, 3>>, <<3, 1>> >>
EdgeEnds(edge_id) == EdgeCatalogue[((edge_id - 1) % Len(EdgeCatalogue)) + 1]

\* edge distances offered (hundredths): 1.00 and 9.00
Distances == {100, 900}

\* readings offered to update_edge_risks: risk 0 and 0.5
Readings == {<<0, 0>>, <<400, 600>>}

\* no stored edge has a larger id
InIdOrder(edge_id) == \A k \in 1..num_edges(graph) : graph.edges[k].edge_id <= edge_id

Next ==
    \/ PathPlanningInit
    \/ \E id \in NodeIds : \E a \in AreasOf(id) :
          id <= num_nodes(graph) + 1 /\ AddNode(id, a, NodeX(id), NodeY(id))
    \/ \E id \in EdgeIds, d \in Distances :
          InIdOrder(id) /\ AddEdge(id, EdgeEnds(id)[1], EdgeEnds(id)[2], d)
    \/ \E rd \in Readings : UpdateEdgeRisks(rd[1], rd[2])
    \/ \E sa \in QueryAreas, ea \in QueryAreas : FindSafePath(sa, ea)

Spec == Init /\ [][Next]_vars


(***************************************************************************)
(* SpecStore: the graph store up to its capacities.  Nodes and edges are   *)
(* offered in id order, one id beyond each capacity; an edge starts at     *)
(* node 1 or at a node that is never stored and ends at node 1 or 2.       *)
(***************************************************************************)

\* a node id that is never stored
MissingNode == MAX_NODES + 5

\* readings offered: risk 0, 0.5 and the largest uint16_t pair (clamped to 1)
StoreReadings == {<<0, 0>>, <<400, 600>>, <<65535, 65535>>}

\* map files offered to load_map_data
UnreadableFile == [readable |-> FALSE, lines |-> <<>>]
GoodFile ==
    [readable |-> TRUE,
     lines |-> << <<"NODES">>, <<"node", 1, 101, 0, 0>>, <<"node", 2, 102, 300, 0>>,
                  <<"EDGES">>, <<"edge", 1, 1, 2, 100>>, <<"edge", 2, 1, 1, 100>> >>]
NoHeaderFile ==
    [readable |-> TRUE,
     lines |-> << <<"node", 1, 101, 0, 0>>, <<"EDGES">>, <<"edge", 1, 1, 1, 100>> >>]
RepeatedNodeFile ==
    [readable |-> TRUE,
     lines |-> << <<"NODES">>, <<"node", 1, 101, 0, 0>>, <<"junk">>,
                  <<"node", 1, 101, 0, 0>>, <<"EDGES">>, <<"edge", 1, 1, 1, 100>> >>]
NoEdgesHeaderFile ==
    [readable |-> TRUE,
     lines |-> << <<"NODES">>, <<"node", 1, 101, 0, 0>>, <<"node", 2, 102, 300, 0>>,
                  <<"edge", 3, 1, 2, 100>> >>]
MapFiles == {UnreadableFile, GoodFile, NoHeaderFile, RepeatedNodeFile, NoEdgesHeaderFile}

NextStore ==
    \/ PathPlanningInit
    \/ \E id \in 1..(MAX_NODES + 1) :
          id <= num_nodes(graph) + 1 /\ AddNode(id, 100 + id, NodeX(id), NodeY(id))
    \/ \E id \in 1..(MAX_EDGES + 1), s \in {1, MissingNode}, e \in {1, 2} :
          id <= num_edges(graph) + 1 /\ AddEdge(id, s, e, 100)
    \/ \E rd \in StoreReadings : UpdateEdgeRisks(rd[1], rd[2])
    \/ \E f \in MapFiles : LoadMapData(f)
    \/ \E q \in {<<101, 102>>, <<102, 101>>, <<101, 109>>} : FindSafePath(q[1], q[2])

SpecStore == Init /\ [][NextStore]_vars

(***************************************************************************)
(* SpecSquare: the map of the module's test main (path_planning.c:397-425):*)
(* nodes 1-4 on a square of side 10, the four sides as edges of distance   *)
(* 10 and the diagonal 1 -> 3 of distance 14.14.  Nodes are added in table *)
(* order, edges in any order, risk updates in between.                     *)
(***************************************************************************)

\* path_planning.c:415-418  <<node_id, area_id, x, y>>
SquareNodes ==
    << <<1, 101, 0, 0>>, <<2, 102, 1000, 0>>, <<3, 103, 1000, 1000>>, <<4, 104, 0, 1000>> >>

\* path_planning.c:421-425  <<edge_id, start_node, end_node, distance>>
SquareEdges ==
    << <<1, 1, 2, 1000>>, <<2, 2, 3, 1000>>, <<3, 3, 4, 1000>>, <<4, 4, 1, 1000>>,
       <<5, 1, 3, 1414>> >>

\* readings offered: risk 0, the test main's reading (path_planning.c:430-435,
\* risk 0.65) and a reading of risk 1.0
SquareReadings == {<<0, 0>>, <<500, 800>>, <<1000, 1000>>}

NextSquare ==
    \/ PathPlanningInit
    \/ \E k \in 1..Len(SquareNodes) :
          /\ k <= num_nodes(graph) + 1
          /\ AddNode(SquareNodes[k][1], SquareNodes[k][2], SquareNodes[k][3], SquareNodes[k][4])
    \/ \E k \in 1..Len(SquareEdges) :
          AddEdge(SquareEdges[k][1], SquareEdges[k][2], SquareEdges[k][3], SquareEdges[k][4])
    \/ \E rd \in SquareReadings : UpdateEdgeRisks(rd[1], rd[2])
    \/ FindSafePath(101, 103)

SpecSquare == Init /\ [][NextSquare]_vars

(***************************************************************************)
(* SpecLoad: load_map_data on small map files.  A file is an optional      *)
(* NODES line, a node section, an optional EDGES line and an edge section; *)
(* a section is up to MaxSectionLines lines, each a record or unreadable   *)
(* text.  One file has one node more than the graph can hold.  The caller  *)
(* loads once after each initialisation, into the empty graph or into a    *)
(* graph that already holds one node.                                      *)
(***************************************************************************)

\* longest node section and longest edge section offered
MaxSectionLines == 2

\* the node line of node id k
NodeLineOf(k) == <<"node", k, 100 + k, NodeX(k), NodeY(k)>>

NodeSectionLine == {NodeLineOf(1), NodeLineOf(2), <<"junk">>}

\* edge 1 shares its id with node 1, edge 7 with no node
EdgeSectionLine == {<<"edge", 1, 1, 2, 100>>, <<"edge", 7, 2, 1, 100>>, <<"junk">>}

RECURSIVE SectionsUpTo(_, _)
SectionsUpTo(alphabet, n) ==
    IF n = 0 THEN {<<>>}
    ELSE LET shorter == SectionsUpTo(alphabet, n - 1)
         IN  shorter \cup {Append(t, l) : t \in {u \in shorter : Len(u) = n - 1},
                                          l \in alphabet}

\* NODES, one node line more than MAX_NODES, EDGES
ManyNodesFile ==
    [readable |-> TRUE,
     lines |-> <<<<"NODES">>>> \o [k \in 1..(MAX_NODES + 1) |-> NodeLineOf(k)]
                  \o <<<<"EDGES">>>>]

LoadFiles ==
    {UnreadableFile, ManyNodesFile}
        \cup {[readable |-> TRUE,
               lines |-> (IF h THEN <<<<"NODES">>>> ELSE <<>>) \o ns
                            \o (IF e THEN <<<<"EDGES">>>> ELSE <<>>) \o es] :
                 h \in BOOLEAN, e \in BOOLEAN,
                 ns \in SectionsUpTo(NodeSectionLine, MaxSectionLines),
                 es \in SectionsUpTo(EdgeSectionLine, MaxSectionLines)}

NextLoad ==
    \/ PathPlanningInit
    \/ \E id \in {1, 2} :
          /\ call[1] \in {"start", "path_planning_init"}
          /\ AddNode(id, 100 + id, NodeX(id), NodeY(id))
    \/ \E f \in LoadFiles : call[1] # "load_map_data" /\ LoadMapData(f)

SpecLoad == Init /\ [][NextLoad]_vars

(***************************************************************************)
(* SpecDirection: the direction translator on the paths the planner        *)
(* returns.  Node 1 lies at the origin, node 2 at any pair of the offered   *)
(* coordinates (so the first step of a path has every sign and every tie),  *)
(* node 3 beyond; nodes and edges are offered in id order.                  *)
(***************************************************************************)

\* -1.5, 0, 0.5 and 2.0: the path keeps -1, 0, 0 and 2
DirectionCoords == {-150, 0, 50, 200}

\* edge id -> <<start node, end node>>
DirectionEdgeEnds(id) == CASE id = 1 -> <<1, 2>> [] id = 2 -> <<2, 1>> [] OTHER -> <<2, 3>>

DirectionAreas == {101, 102, 103}

NextDirection ==
    \/ PathPlanningInit
    \/ /\ num_nodes(graph) = 0
       /\ AddNode(1, 101, 0, 0)
    \/ \E x \in DirectionCoords, y \in DirectionCoords :
          /\ num_nodes(graph) = 1
          /\ AddNode(2, 102, x, y)
    \/ /\ num_nodes(graph) = 2
       /\ AddNode(3, 103, 0, 300)
    \/ \E id \in {1, 2, 3} :
          InIdOrder(id) /\ AddEdge(id, DirectionEdgeEnds(id)[1], DirectionEdgeEnds(id)[2], 100)
    \/ \E sa \in DirectionAreas, ea \in DirectionAreas : FindSafePath(sa, ea)
    \/ \E path_is_null \in BOOLEAN : GetDirectionFromPath(path_is_null)

SpecDirection == Init /\ [][NextDirection]_vars

(***************************************************************************)
(* SpecSystem: the system's main() over MaxSysTicks iterations of its loop, *)
(* for every outcome of the driver inits, every offered sample and every    *)
(* offered content of the uninitialised locals.                             *)
(***************************************************************************)

InitSystem == PlanInit /\ MallIdle /\ SysStart /\ RaceIdle

NextSystem ==
    \/ SystemInit
    \/ ReadSensors
    \/ Fuse
    \/ UiUpdate
    \/ CheckAlert
    \/ Sleep

SpecSystem == InitSystem /\ [][NextSystem]_vars

(***************************************************************************)
(* SpecRace: one context applies readings, another plans from area 101 to   *)
(* area 103, on a triangle map: 1 -> 2 -> 3 of length 3 + 4 and the direct  *)
(* edge 1 -> 3 of length 5, stored after the other two.                     *)
(***************************************************************************)

\* <<node_id, area_id, x, y>>
TriangleNodes == << <<1, 101, 0, 0>>, <<2, 102, 300, 0>>, <<3, 103, 300, 400>> >>

\* <<edge_id, start_node, end_node, distance>>
TriangleEdges == << <<1, 1, 2, 300>>, <<2, 2, 3, 400>>, <<3, 1, 3, 500>> >>

RECURSIVE WithNodes(_, _, _)
WithNodes(g, ns, k) ==
    IF k > Len(ns) THEN g
    ELSE WithNodes(add_node(g, ns[k][1], ns[k][2], ns[k][3], ns[k][4]).graph, ns, k + 1)

RECURSIVE WithEdges(_, _, _)
WithEdges(g, es, k) ==
    IF k > Len(es) THEN g
    ELSE WithEdges(add_edge(g, es[k][1], es[k][2], es[k][3], es[k][4]).graph, es, k + 1)

TriangleGraph == WithEdges(WithNodes(EmptyGraph, TriangleNodes, 1), TriangleEdges, 1)

\* readings offered: risk 0, 0.5 and 1.0
RaceReadings == {<<0, 0>>, <<400, 600>>, <<1000, 1000>>}

InitRace ==
    /\ graph = TriangleGraph
    /\ path = EmptyPath
    /\ ret = 0
    /\ call = <<"start">>
    /\ MallIdle
    /\ SysIdle
    /\ RaceIdle

NextRace ==
    \/ \E rd \in RaceReadings : UpdateBegin(rd[1], rd[2])
    \/ UpdateStep
    \/ UpdateEnd
    \/ \E ea \in {102, 103, 109} : PlanSearch(101, ea)
    \/ PlanTotals

SpecRace == InitRace /\ [][NextRace]_vars

(***************************************************************************)
(* SpecFrame: every operation of the planning module on a map of up to     *)
(* three nodes and three edges, offered in id order (a repeated id is       *)
(* offered too and rejected), with two map files loaded on top of whatever  *)
(* is stored.                                                               *)
(***************************************************************************)

\* edge id -> <<start node, end node>>
FrameEdgeEnds(id) == CASE id = 1 -> <<1, 2>> [] id = 2 -> <<2, 3>> [] OTHER -> <<3, 1>>

NextFrame ==
    \/ PathPlanningInit
    \/ PathPlanningCleanup
    \/ \E id \in {1, 2, 3} :
          id <= num_nodes(graph) + 1 /\ AddNode(id, 100 + id, NodeX(id), NodeY(id))
    \/ \E id \in {1, 2, 3} :
          id <= num_edges(graph) + 1 /\ AddEdge(id, FrameEdgeEnds(id)[1], FrameEdgeEnds(id)[2], 100)
    \/ \E rd \in Readings : UpdateEdgeRisks(rd[1], rd[2])
    \/ \E f \in {GoodFile, RepeatedNodeFile} : LoadMapData(f)
    \/ \E sa \in {101, 103}, ea \in {102, 103} : FindSafePath(sa, ea)
    \/ GetDirectionFromPath(FALSE)

SpecFrame == Init /\ [][NextFrame]_vars

(***************************************************************************)
(* SpecSearch: the planner on maps of up to three nodes with cycles, a      *)
(* self-loop, a reverse-only pair and edges of distance 0.  Nodes and edges *)
(* are offered in id order; each edge has distance 0 or 1.00.               *)
(***************************************************************************)

\* edge id -> <<start node, end node>>: 1 -> 2 -> 1 is a cycle, 2 -> 2 a
\* self-loop, node 3 is entered from 2 and left toward 1
SearchEdgeEnds(id) ==
    CASE id = 1 -> <<1, 2>> [] id = 2 -> <<2, 1>> [] id = 3 -> <<2, 2>>
      [] id = 4 -> <<2, 3>> [] OTHER -> <<3, 1>>

SearchDistances == {0, 100}

SearchAreas == {101, 102, 103}

NextSearch ==
    \/ PathPlanningInit
    \/ \E id \in {1, 2, 3} :
          id = num_nodes(graph) + 1 /\ AddNode(id, 100 + id, NodeX(id), NodeY(id))
    \/ \E id \in 1..5, d \in SearchDistances :
          /\ \A k \in 1..num_edges(graph) : graph.edges[k].edge_id < id
          /\ AddEdge(id, SearchEdgeEnds(id)[1], SearchEdgeEnds(id)[2], d)
    \/ \E rd \in Readings : UpdateEdgeRisks(rd[1], rd[2])
    \/ \E sa \in SearchAreas, ea \in SearchAreas : FindSafePath(sa, ea)

SpecSearch == Init /\ [][NextSearch]_vars

(***************************************************************************)
(* SpecTie: the planner on a kite: node 1 at the bottom, nodes 2 and 3 at   *)
(* equal distance right and left of it, node 4 at the top; edges 1 -> 2,    *)
(* 1 -> 3, 2 -> 4 and 3 -> 4 of distance 1.00.  Nodes 2 and 3 are stored in *)
(* either order.                                                            *)
(***************************************************************************)

\* node id -> <<x, y>>
KiteAt(id) == CASE id = 1 -> <<0, 0>> [] id = 2 -> <<300, 0>> [] id = 3 -> <<-300, 0>>
                [] OTHER -> <<0, 400>>

\* edge id -> <<start node, end node>>
KiteEdgeEnds(id) == CASE id = 1 -> <<1, 2>> [] id = 2 -> <<1, 3>> [] id = 3 -> <<2, 4>>
                      [] OTHER -> <<3, 4>>

NextTie ==
    \/ PathPlanningInit
    \/ \E id \in {1, 2, 3, 4} :
          /\ id = 1 <=> num_nodes(graph) = 0
          /\ id = 4 => num_nodes(graph) = 3
          /\ AddNode(id, 100 + id, KiteAt(id)[1], KiteAt(id)[2])
    \/ \E id \in {1, 2, 3, 4} :
          InIdOrder(id) /\ AddEdge(id, KiteEdgeEnds(id)[1], KiteEdgeEnds(id)[2], 100)
    \/ \E rd \in Readings : UpdateEdgeRisks(rd[1], rd[2])
    \/ \E ea \in {102, 103, 104} : FindSafePath(101, ea)

SpecTie == Init /\ [][NextTie]_vars

(***************************************************************************)
(* SpecReplace: queries at successive clock values on one path object, on   *)
(* a map of up to three nodes whose edges all lead away from node 1, so     *)
(* that a query can succeed, find no route or find no area.                 *)
(***************************************************************************)

\* edge id -> <<start node, end node>>
ReplaceEdgeEnds(id) == CASE id = 1 -> <<1, 2>> [] id = 2 -> <<2, 3>> [] OTHER -> <<1, 3>>

\* values of time(NULL)
Clock == {1, 2}

NextReplace ==
    \/ PathPlanningInit
    \/ \E id \in {1, 2, 3} :
          id = num_nodes(graph) + 1 /\ AddNode(id, 100 + id, NodeX(id), NodeY(id))
    \/ \E id \in {1, 2, 3} :
          InIdOrder(id) /\ AddEdge(id, ReplaceEdgeEnds(id)[1], ReplaceEdgeEnds(id)[2], 100)
    \/ \E sa \in QueryAreas \cup {103}, ea \in QueryAreas \cup {103}, now \in Clock :
          FindSafePathAt(sa, ea, now)

SpecReplace == Init /\ [][NextReplace]_vars

(***************************************************************************)
(* SpecMall: main() of the evacuation demo on small map files.  Line k of  *)
(* an areas file describes area 100 + k, as exit or not, with a hazard     *)
(* level of 0.5, 0.8 or 0.9; the second line may be unreadable text.       *)
(***************************************************************************)

\* longest areas file and longest connections file offered
MaxAreaLines == 3
MaxConnLines == 2

\* hazard levels written in the files, in thousandths
HazardTexts == {500, 800, 900}

AreaLine(k) ==
    {<<"area", 100 + k, x, h>> : x \in {0, 1}, h \in HazardTexts}
        \cup (IF k = 2 THEN {<<"junk">>} ELSE {})

RECURSIVE AreaLinesUpTo(_)
AreaLinesUpTo(n) ==
    IF n = 0 THEN {<<>>}
    ELSE LET shorter == AreaLinesUpTo(n - 1)
         IN  shorter \cup {Append(t, l) : t \in {u \in shorter : Len(u) = n - 1},
                                          l \in AreaLine(n)}

\* connection lines offered: from, to, distance, blocked
ConnLine ==
    {<<"conn", 101, 102, 1500, 0>>, <<"conn", 101, 103, 500, 0>>,
     <<"conn", 103, 101, 700, 1>>, <<"junk">>}

RECURSIVE ConnLinesUpTo(_)
ConnLinesUpTo(n) ==
    IF n = 0 THEN {<<>>}
    ELSE LET shorter == ConnLinesUpTo(n - 1)
         IN  shorter \cup {Append(t, l) : t \in {u \in shorter : Len(u) = n - 1},
                                          l \in ConnLine}

AreaFiles ==
    {[readable |-> FALSE, lines |-> <<>>]}
        \cup {[readable |-> TRUE, lines |-> t] : t \in AreaLinesUpTo(MaxAreaLines)}

ConnFiles ==
    {[readable |-> FALSE, lines |-> <<>>]}
        \cup {[readable |-> TRUE, lines |-> t] : t \in ConnLinesUpTo(MaxConnLines)}

\* main.c:183-200 before the files are read
MainStart ==
    /\ mall_map = ZeroMap
    /\ evac_path = ZeroPath
    /\ current_area = START_AREA
    /\ step = 0
    /\ pc = "start"
    /\ tick = NoTick

InitMall == PlanInit /\ MainStart /\ SysIdle /\ RaceIdle

NextMall ==
    \/ \E af \in AreaFiles, cf \in ConnFiles : MainLoad(af, cf)
    \/ MainPlan
    \/ MainStep
    \/ MainStop

SpecMall == InitMall /\ [][NextMall]_vars

(***************************************************************************)
(* SpecPolicy: update_path_dynamically and the loop body around it on any  *)
(* loaded map, any two-area path planned earlier and any current area.     *)
(***************************************************************************)

\* passes of the loop body taken from one starting point
MaxTicks == 2

\* area ids a caller may stand in or may have planned between
PolicyAreas == {101, 102, 103}

\* connections files the maps are loaded from
PolicyConnFiles ==
    {[readable |-> TRUE, lines |-> t] :
        t \in {<<>>,
               << <<"conn", 101, 102, 1500, 0>>, <<"conn", 101, 103, 500, 0>> >>,
               << <<"conn", 103, 101, 500, 0>>, <<"conn", 102, 101, 1500, 0>> >>,
               << <<"conn", 101, 102, 1500, 1>> >>}}

InitPolicy ==
    /\ PlanInit
    /\ \E af \in AreaFiles, cf \in PolicyConnFiles :
          /\ af.readable
          /\ mall_map = load_connections_from_file(
                            load_areas_from_file(ZeroMap, af).map, cf).map
    /\ \E s \in PolicyAreas, e \in PolicyAreas :
          evac_path = find_evacuation_path(mall_map, s, e)
    /\ current_area \in PolicyAreas
    /\ step = 0
    /\ pc = "policy"
    /\ tick = NoTick
    /\ SysIdle
    /\ RaceIdle

\* main.c:222-244 from the current area
PolicyTick ==
    /\ pc = "policy"
    /\ step < MaxTicks
    /\ LoopBody(current_area)
    /\ step' = step + 1
    /\ UNCHANGED <<mall_map, current_area, pc, planVars, sys, race>>

NextPolicy == PolicyTick

SpecPolicy == InitPolicy /\ [][NextPolicy]_vars

(***************************************************************************)
(* Reference notions the claims are stated with (not code)                 *)
(***************************************************************************)

\* indices of the stored nodes
NodeIdx(g) == 1..num_nodes(g)

\* weighted cost of the cheapest stored edge from node id a to node id b,
\* -1 when no edge joins them in that direction
HopCost(g, a, b) ==
    LET js == {j \in 1..num_edges(g) :
                  g.edges[j].start_node = a /\ g.edges[j].end_node = b}
    IN  IF js = {} THEN -1
        ELSE LET j == CHOOSE j \in js : \A k \in js : EdgeCost(g.edges[j]) <= EdgeCost(g.edges[k])
             IN  EdgeCost(g.edges[j])

RECURSIVE RouteCostFrom(_, _, _, _)
RouteCostFrom(g, ids, i, acc) ==
    IF i > Len(ids) THEN acc
    ELSE LET h == HopCost(g, ids[i - 1], ids[i])
         IN  IF h = -1 THEN -1 ELSE RouteCostFrom(g, ids, i + 1, acc + h)

\* weighted cost of a route given as a sequence of node ids, -1 when two
\* consecutive nodes are not joined by an edge
RouteCost(g, ids) == RouteCostFrom(g, ids, 2, 0)

RECURSIVE Cheapest(_, _, _)
\* Bellman-Ford: d[i] is the least weighted cost found so far of a route
\* from the start node to node index i (-1: none), k more rounds to go
Cheapest(g, d, k) ==
    IF k = 0 THEN d
    ELSE LET cand(i) == {d[h] + EdgeCost(g.edges[j]) :
                           <<h, j>> \in {hj \in NodeIdx(g) \X (1..num_edges(g)) :
                               /\ d[hj[1]] # -1
                               /\ g.edges[hj[2]].start_node = g.nodes[hj[1]].node_id
                               /\ g.edges[hj[2]].end_node = g.nodes[i].node_id}}
             all(i) == cand(i) \cup (IF d[i] = -1 THEN {} ELSE {d[i]})
             nd == [i \in NodeIdx(g) |->
                      IF all(i) = {} THEN -1
                      ELSE CHOOSE c \in all(i) : \A c2 \in all(i) : c <= c2]
         IN  Cheapest(g, nd, k - 1)

\* least weighted cost of a route from node index u to node index v following
\* edges from start_node to end_node, -1 when v cannot be reached
LeastCost(g, u, v) ==
    Cheapest(g, [i \in NodeIdx(g) |-> IF i = u THEN 0 ELSE -1], num_nodes(g))[v]

\* node index v can be reached from node index u along stored edges
Reachable(g, u, v) == LeastCost(g, u, v) # -1

\* the last call was find_safe_path
IsQuery == call[1] = "find_safe_path"
QueryStart == call[2]
QueryEnd == call[3]

\* the node index an area resolves to in find_safe_path, -1 when none
ResolvedIdx(g, area_id) ==
    IF ResolveArea(g, area_id) = -1 THEN -1
    ELSE find_node_index_by_id(g, ResolveArea(g, area_id))

\* node ids of the returned path, in order
PathIds(p) == [i \in 1..p.num_nodes |-> p.nodes[i].node_id]

\* the first stored node index with this area id, -1 when none
RECURSIVE FirstMatchFrom(_, _, _)
FirstMatchFrom(g, area_id, i) ==
    IF i > num_nodes(g) THEN -1
    ELSE IF g.nodes[i].area_id = area_id THEN i
    ELSE FirstMatchFrom(g, area_id, i + 1)

FirstMatchIdx(g, area_id) == FirstMatchFrom(g, area_id, 1)

\* risk factors tried on one edge: 0, 0.5 and 1
RiskLevels == {0, RISK_DEN \div 2, RISK_DEN}

\* the graph with the risk factor of edge index j set to r
WithRisk(g, j, r) == [g EXCEPT !.edges[j].risk_factor = r]

\* the answer of find_safe_path on graph g
Plan(g, start_area_id, end_area_id) == find_safe_path(g, start_area_id, end_area_id, EmptyPath)

\* path p goes from the start node to the end node of edge index j in one hop
UsesEdge(g, j, p) ==
    \E i \in 1..(p.num_nodes - 1) :
        /\ p.nodes[i].node_id = g.edges[j].start_node
        /\ p.nodes[i + 1].node_id = g.edges[j].end_node

\* the stored nodes and edges are exactly those of the square map
SquareStored ==
    /\ {<<n.node_id, n.area_id, n.x, n.y>> : n \in {graph.nodes[i] : i \in NodeIdx(graph)}}
          = {SquareNodes[k] : k \in 1..Len(SquareNodes)}
    /\ num_nodes(graph) = Len(SquareNodes)
    /\ {<<e.edge_id, e.start_node, e.end_node, e.distance>> :
            e \in {graph.edges[j] : j \in 1..num_edges(graph)}}
          = {SquareEdges[k] : k \in 1..Len(SquareEdges)}
    /\ num_edges(graph) = Len(SquareEdges)

\* risk factor of the stored diagonal 1 -> 3 is r and of every other edge 0
DiagonalRisk(r) ==
    \A j \in 1..num_edges(graph) :
        graph.edges[j].risk_factor =
            IF graph.edges[j].start_node = 1 /\ graph.edges[j].end_node = 3 THEN r ELSE 0

\* a pass of the loop body has run
Ticked == step > 0

\* area ids of the map with a stored hazard level that compares greater than 0.8
HazardousAreas(map) ==
    {map.areas[j].id : j \in {k \in 1..area_count(map) : Exceeds(map.areas[k].hazard_level)}}

\* area ids of a path
AreasOn(p) == {p.area_ids[i] : i \in 1..p.length}

\* some area of path p carries a hazard level above the one written 0.8
AboveWritten(map, p) ==
    \E i \in 1..p.length : \E j \in 1..area_count(map) :
        map.areas[j].id = p.area_ids[i] /\ map.areas[j].hazard_level > strtof(800)

\* exits of the map
ExitAreas(map) == {map.areas[j].id : j \in {k \in 1..area_count(map) : map.areas[k].is_exit # 0}}

\* every area id the map mentions
MapAreas(map) ==
    {map.areas[j].id : j \in 1..area_count(map)}
        \cup {map.connections[j].from : j \in 1..connection_count(map)}
        \cup {map.connections[j].to : j \in 1..connection_count(map)}

RECURSIVE Walk(_, _, _)
\* least distances from one area over unblocked connections, taken in either
\* direction; d[a] = -1 while a is not reached; k more rounds to go
Walk(map, d, k) ==
    IF k = 0 THEN d
    ELSE LET cand(a) ==
                 {d[b] + map.connections[j].distance :
                     <<b, j>> \in {bj \in (DOMAIN d) \X (1..connection_count(map)) :
                         /\ d[bj[1]] # -1
                         /\ map.connections[bj[2]].blocked = 0
                         /\ \/ (map.connections[bj[2]].from = bj[1]
                                /\ map.connections[bj[2]].to = a)
                            \/ (map.connections[bj[2]].to = bj[1]
                                /\ map.connections[bj[2]].from = a)}}
             all(a) == cand(a) \cup (IF d[a] = -1 THEN {} ELSE {d[a]})
             nd == [a \in DOMAIN d |->
                      IF all(a) = {} THEN -1
                      ELSE CHOOSE c \in all(a) : \A c2 \in all(a) : c <= c2]
         IN  Walk(map, nd, k - 1)

\* route distance from area a to area b, -1 when there is no route
RouteDistance(map, a, b) ==
    LET ids == MapAreas(map) \cup {a, b}
    IN  Walk(map, [c \in ids |-> IF c = a THEN 0 ELSE -1], Cardinality(ids))[b]

(***************************************************************************)
(* Claims on the planner                                                   *)
(***************************************************************************)

\* C1: every path find_safe_path returns has the least total weighted cost,
\* sum of distance * (1 + 10 * risk_factor), among all routes from its first
\* node to its last node, whatever the distances and coordinates are.
C1_ReturnsCheapestRoute ==
    (IsQuery /\ ret = 0) =>
        RouteCost(graph, PathIds(path)) =
            LeastCost(graph, find_node_index_by_id(graph, path.nodes[1].node_id),
                      find_node_index_by_id(graph, path.nodes[path.num_nodes].node_id))

\* C2: for every start/end area pair connected in the graph (the node each
\* area resolves to by first match, and a route along stored edges between
\* the two), find_safe_path succeeds and the path starts in the start area
\* and ends in the end area.
C2_ConnectedPairGetsPath ==
    (/\ IsQuery
     /\ FirstMatchIdx(graph, QueryStart) # -1
     /\ FirstMatchIdx(graph, QueryEnd) # -1
     /\ Reachable(graph, FirstMatchIdx(graph, QueryStart), FirstMatchIdx(graph, QueryEnd)))
    => /\ ret = 0
       /\ path.num_nodes >= 1
       /\ path.nodes[1].area_id = QueryStart
       /\ path.nodes[path.num_nodes].area_id = QueryEnd

\* The same with the nodes find_safe_path itself resolves the areas to (the
\* last stored node of each area): in this form it holds.
ResolvedPairGetsPath ==
    (/\ IsQuery
     /\ ResolvedIdx(graph, QueryStart) # -1
     /\ ResolvedIdx(graph, QueryEnd) # -1
     /\ Reachable(graph, ResolvedIdx(graph, QueryStart), ResolvedIdx(graph, QueryEnd)))
    => /\ ret = 0
       /\ path.num_nodes >= 1
       /\ path.nodes[1].area_id = QueryStart
       /\ path.nodes[path.num_nodes].area_id = QueryEnd

\* C3: on the square map find_safe_path(101, 103) returns the direct path
\* 1, 3 with total_distance 14.14 when every risk factor is 0, and the path
\* 1, 2, 3 with total_distance 20 when the diagonal's risk factor is 1.0 and
\* every other risk factor is 0.
C3_SquareScenario ==
    (IsQuery /\ QueryStart = 101 /\ QueryEnd = 103 /\ SquareStored) =>
        /\ DiagonalRisk(0) =>
              /\ ret = 0
              /\ PathIds(path) = <<1, 3>>
              /\ path.total_distance = 1414
        /\ DiagonalRisk(RISK_DEN) =>
              /\ ret = 0
              /\ PathIds(path) = <<1, 2, 3>>
              /\ path.total_distance = 20 * DIST_SCALE

\* C3 witness: the query was answered on the whole square map with the
\* diagonal at risk 1.0 and the sides at risk 0, by the two-hop path
C3_Witness ==
    /\ IsQuery /\ SquareStored /\ DiagonalRisk(RISK_DEN)
    /\ ret = 0
    /\ path.num_nodes = 3
    /\ path.total_risk = 0

\* C4: with the topology and every other edge fixed, for risk factors
\* r <= r2 of one edge e: if find_safe_path avoids e at r it avoids e at r2,
\* and if it uses e at r and avoids e at r2 then at r2 the route it returns
\* has a lower weighted cost than the route through e it gave up.
C4_RouteChoiceMonotone ==
    \A j \in 1..num_edges(graph), sa \in QueryAreas, ea \in QueryAreas,
       r \in RiskLevels, r2 \in RiskLevels :
        LET g1 == WithRisk(graph, j, r)
            g2 == WithRisk(graph, j, r2)
            p1 == Plan(g1, sa, ea)
            p2 == Plan(g2, sa, ea)
        IN  (r <= r2 /\ p1.ret = 0 /\ p2.ret = 0) =>
                /\ ~UsesEdge(graph, j, p1.path) => ~UsesEdge(graph, j, p2.path)
                /\ (UsesEdge(graph, j, p1.path) /\ ~UsesEdge(graph, j, p2.path)) =>
                      RouteCost(g2, PathIds(p2.path)) < RouteCost(g2, PathIds(p1.path))

\* The first half alone: an edge avoided at risk r is avoided at every higher
\* risk r2 of that edge.  In this form it holds.
AvoidedEdgeStaysAvoided ==
    \A j \in 1..num_edges(graph), sa \in QueryAreas, ea \in QueryAreas,
       r \in RiskLevels, r2 \in RiskLevels :
        LET p1 == Plan(WithRisk(graph, j, r), sa, ea)
            p2 == Plan(WithRisk(graph, j, r2), sa, ea)
        IN  (r <= r2 /\ p1.ret = 0 /\ p2.ret = 0 /\ ~UsesEdge(graph, j, p1.path))
                => ~UsesEdge(graph, j, p2.path)

(***************************************************************************)
(* Claims on the dynamic path update                                       *)
(***************************************************************************)

\* C5: when update_path_dynamically finds an area of the active path with a
\* hazard level above 0.8, the path it returns differs from the active path
\* and contains no area with a hazard level above 0.8 (the code has no other
\* way to report that there is no such path).
C5_ReplannedPathAvoidsHazard ==
    (Ticked /\ tick.triggered) =>
        /\ path_changed(tick.result, tick.before)
        /\ AreasOn(tick.result) \cap HazardousAreas(mall_map) = {}

\* C6: on a pass in which no area of the active path has a hazard level
\* strictly greater than 0.8 (a level written as exactly 0.8 does not
\* count), update_path_dynamically returns the active path unchanged, the
\* active path stays, and find_nearest_exit and find_evacuation_path are not
\* called.
C6_NoHazardKeepsPath ==
    (Ticked /\ ~AboveWritten(mall_map, tick.before)) =>
        /\ tick.result = tick.before
        /\ evac_path = tick.before
        /\ tick.exit_searches = 0
        /\ tick.planner_calls = 0

\* The same for stored levels that do not compare greater than 0.8 in the
\* code's own comparison: in this form it holds.
UnchangedWhenNotExceeding ==
    (Ticked /\ AreasOn(tick.before) \cap HazardousAreas(mall_map) = {}) =>
        /\ tick.result = tick.before
        /\ evac_path = tick.before
        /\ tick.exit_searches = 0
        /\ tick.planner_calls = 0

C8_ChosenExitIsNearest ==
    (Ticked /\ tick.triggered /\ ExitAreas(mall_map) # {}) =>
        \A x \in ExitAreas(mall_map) :
            RouteDistance(mall_map, tick.current, x) # -1 =>
                /\ RouteDistance(mall_map, tick.current, tick.nearest_exit) # -1
                /\ RouteDistance(mall_map, tick.current, tick.nearest_exit)
                      <= RouteDistance(mall_map, tick.current, x)

(***************************************************************************)
(* Claims on the graph store                                               *)
(***************************************************************************)

\* C9: after any sequence of calls on the planning module the node ids are
\* pairwise distinct, the edge ids are pairwise distinct, both end nodes of
\* every stored edge are stored nodes, and the counts are within MAX_NODES
\* and MAX_EDGES.
C9_GraphWellFormed ==
    /\ \A i \in NodeIdx(graph), k \in NodeIdx(graph) :
          graph.nodes[i].node_id = graph.nodes[k].node_id => i = k
    /\ \A i \in 1..num_edges(graph), k \in 1..num_edges(graph) :
          graph.edges[i].edge_id = graph.edges[k].edge_id => i = k
    /\ \A j \in 1..num_edges(graph) :
          /\ NodeExists(graph, graph.edges[j].start_node)
          /\ NodeExists(graph, graph.edges[j].end_node)
    /\ num_nodes(graph) <= MAX_NODES
    /\ num_edges(graph) <= MAX_EDGES

\* C9 witness: the graph is at both capacities, some edge carries a risk,
\* and the last call was a load_map_data that failed
C9_Witness ==
    /\ num_nodes(graph) = MAX_NODES
    /\ num_edges(graph) = MAX_EDGES
    /\ \E j \in 1..num_edges(graph) : graph.edges[j].risk_factor > 0
    /\ call[1] = "load_map_data"
    /\ ret = -1

\* C10: an add_node call with a stored node id or at node capacity, and an
\* add_edge call with a stored edge id, a missing start or end node, or at
\* edge capacity, returns -1 and leaves the graph (nodes, edges, counts and
\* risk factors) as it was.
C10_RejectedInsertLeavesGraph ==
    [][/\ (/\ call'[1] = "add_node"
           /\ (NodeExists(graph, call'[2]) \/ num_nodes(graph) >= MAX_NODES))
          => (ret' = -1 /\ graph' = graph)
       /\ (/\ call'[1] = "add_edge"
           /\ \/ EdgeExists(graph, call'[2])
              \/ ~NodeExists(graph, call'[3])
              \/ ~NodeExists(graph, call'[4])
              \/ num_edges(graph) >= MAX_EDGES)
          => (ret' = -1 /\ graph' = graph)]_vars

\* C10 witness: an add_edge with a fresh id and a missing start node was
\* rejected on a graph whose edges carry a risk
C10_Witness ==
    /\ call[1] = "add_edge"
    /\ ret = -1
    /\ ~EdgeExists(graph, call[2])
    /\ ~NodeExists(graph, call[3])
    /\ NodeExists(graph, call[4])
    /\ num_edges(graph) < MAX_EDGES
    /\ \E j \in 1..num_edges(graph) : graph.edges[j].risk_factor > 0

(***************************************************************************)
(* Claims on the risk update                                               *)
(***************************************************************************)

\* readings at the corners of the uint16_t range and around the sum 2000
ReadingCorners == {0, 1, 999, 1000, 1001, 2000, 2001, 65535}

\* C11: every edge's risk factor lies in [0, 1]: it is 0 on the edge a
\* successful add_edge has just stored, and update_edge_risks leaves it in
\* [0, 1] for every reading of the 16-bit unsigned range, sums above 2000
\* and 65535 + 65535 included.
C11_RiskWithinUnitInterval ==
    /\ \A j \in 1..num_edges(graph) :
          graph.edges[j].risk_factor >= 0 /\ graph.edges[j].risk_factor <= RISK_DEN
    /\ (call[1] = "add_edge" /\ ret = 0) =>
          graph.edges[num_edges(graph)].risk_factor = 0
    /\ \A t \in ReadingCorners, e \in ReadingCorners :
          \A j \in 1..num_edges(graph) :
              LET r == update_edge_risks(graph, t, e).graph.edges[j].risk_factor
              IN  r >= 0 /\ r <= RISK_DEN

\* C11 witness: the last call was update_edge_risks with a reading whose sum
\* is above 2000, and every stored edge has risk factor 1
C11_Witness ==
    /\ call[1] = "update_edge_risks"
    /\ call[2] + call[3] > RISK_DEN
    /\ num_edges(graph) >= 2
    /\ \A j \in 1..num_edges(graph) : graph.edges[j].risk_factor = RISK_DEN

\* C12: after update_edge_risks with a reading, a second call with the same
\* reading succeeds and leaves the whole graph as the first call left it.
C12_RiskUpdateIdempotent ==
    call[1] = "update_edge_risks" =>
        /\ update_edge_risks(graph, call[2], call[3]).ret = 0
        /\ update_edge_risks(graph, call[2], call[3]).graph = graph

\* C12 witness: the last call was update_edge_risks with a reading of risk
\* strictly between 0 and 1, on a graph with at least two edges
C12_Witness ==
    /\ call[1] = "update_edge_risks"
    /\ num_edges(graph) >= 2
    /\ \A j \in 1..num_edges(graph) :
          graph.edges[j].risk_factor > 0 /\ graph.edges[j].risk_factor < RISK_DEN

\* area ids of the stored nodes
GraphAreas(g) == {g.nodes[i].area_id : i \in NodeIdx(g)}

\* C13: after update_edge_risks each edge's risk factor is the maximum of
\* the hazard values of the areas of its two end nodes; so for a reading
\* taken in one area a, an edge neither of whose end nodes lies in a keeps
\* the risk factor it had and does not receive the hazard measured in a.
C13_RiskFollowsEndpointAreas ==
    \A rd \in SquareReadings :
        num_edges(graph) >= 1 =>
            \E a \in GraphAreas(graph) :
                \A j \in 1..num_edges(graph) :
                    (/\ EndpointArea(graph, graph.edges[j].start_node) # a
                     /\ EndpointArea(graph, graph.edges[j].end_node) # a)
                    => update_edge_risks(graph, rd[1], rd[2]).graph.edges[j].risk_factor
                           = graph.edges[j].risk_factor

(***************************************************************************)
(* Claims on the map loader                                                *)
(***************************************************************************)

\* the record lines of a file of one kind ("node" or "edge")
RecordsOf(file, kind) == SelectSeq(file.lines, LAMBDA l : l[1] = kind)

\* the ids of the node lines are distinct, those of the edge lines are
\* distinct, and every edge line starts and ends at a node of a node line
RecordsConsistent(file) ==
    LET ns == RecordsOf(file, "node")
        es == RecordsOf(file, "edge")
    IN  /\ \A i \in 1..Len(ns), k \in 1..Len(ns) : ns[i][2] = ns[k][2] => i = k
        /\ \A i \in 1..Len(es), k \in 1..Len(es) : es[i][2] = es[k][2] => i = k
        /\ \A i \in 1..Len(es) :
              /\ \E k \in 1..Len(ns) : ns[k][2] = es[i][3]
              /\ \E k \in 1..Len(ns) : ns[k][2] = es[i][4]

\* a NODES line, then node lines, then edge lines and nothing else
DocumentedFormat(file) ==
    /\ file.readable
    /\ file.lines = <<<<"NODES">>>> \o RecordsOf(file, "node") \o RecordsOf(file, "edge")
    /\ RecordsConsistent(file)

\* a NODES line, node lines, an EDGES line, edge lines and nothing else, with
\* no more lines of a kind than the graph holds
SectionedFormat(file) ==
    /\ file.readable
    /\ file.lines = <<<<"NODES">>>> \o RecordsOf(file, "node")
                        \o <<<<"EDGES">>>> \o RecordsOf(file, "edge")
    /\ RecordsConsistent(file)
    /\ Len(RecordsOf(file, "node")) <= MAX_NODES
    /\ Len(RecordsOf(file, "edge")) <= MAX_EDGES

\* the graph holds one node per node line and one edge per edge line of the
\* file, in file order
HoldsRecordsOf(g, file) ==
    /\ [i \in 1..num_nodes(g) |-> g.nodes[i].node_id]
          = [i \in 1..Len(RecordsOf(file, "node")) |-> RecordsOf(file, "node")[i][2]]
    /\ [i \in 1..num_edges(g) |-> g.edges[i].edge_id]
          = [i \in 1..Len(RecordsOf(file, "edge")) |-> RecordsOf(file, "edge")[i][2]]

\* C14 as claimed: loading into the empty graph a file made of a NODES line,
\* N node lines and then M edge lines (ids distinct, edge end nodes among
\* the N nodes) succeeds and gives exactly N nodes and M edges.
C14_DocumentedFileLoads ==
    [][(/\ call'[1] = "load_map_data"
        /\ graph = EmptyGraph
        /\ DocumentedFormat(call'[2]))
       => (/\ ret' = 0
           /\ num_nodes(graph') = Len(RecordsOf(call'[2], "node"))
           /\ num_edges(graph') = Len(RecordsOf(call'[2], "edge")))]_vars

\* C14 as amended: the same for a file made of a NODES line, N <= MAX_NODES
\* node lines, an EDGES line and then M <= MAX_EDGES edge lines.
C14_SectionedFileLoads ==
    [][(/\ call'[1] = "load_map_data"
        /\ graph = EmptyGraph
        /\ SectionedFormat(call'[2]))
       => (/\ ret' = 0
           /\ HoldsRecordsOf(graph', call'[2]))]_vars

\* C14 witness: a file with two node lines, an EDGES line and two edge lines
\* was loaded and the graph holds its two nodes and two edges
C14_Witness ==
    /\ call[1] = "load_map_data"
    /\ SectionedFormat(call[2])
    /\ ret = 0
    /\ num_nodes(graph) = 2
    /\ num_edges(graph) = 2
    /\ HoldsRecordsOf(graph, call[2])

\* C15: when load_map_data fails, the graph holds none of the nodes or edges
\* of that file: it is as it was before the call.
C15_FailedLoadKeepsNothing ==
    [][(call'[1] = "load_map_data" /\ ret' = -1) => graph' = graph]_vars

\* the NODES line is missing, or the file has no edge section (no EDGES line
\* and no edge line), or a line of a section is not a complete record
Malformed(file) ==
    \/ Len(file.lines) = 0
    \/ file.lines[1] # <<"NODES">>
    \/ \A i \in 1..Len(file.lines) : file.lines[i][1] \notin {"EDGES", "edge"}
    \/ \E i \in 1..Len(file.lines) : file.lines[i] = <<"junk">>

\* C16: load_map_data fails on every malformed file; no malformed line is
\* skipped with the load still reported as successful.
C16_MalformedFileFails ==
    (call[1] = "load_map_data" /\ call[2].readable /\ Malformed(call[2])) => ret = -1

(***************************************************************************)
(* Claims on area resolution and on the totals of a path                   *)
(***************************************************************************)

\* C17: when several nodes share the start (or end) area id, find_safe_path
\* resolves the area to the first such node in insertion order, and the
\* returned path starts (ends) at that node.
C17_FirstNodeOfAreaIsUsed ==
    (IsQuery /\ ret = 0) =>
        /\ path.nodes[1].node_id
              = graph.nodes[FirstMatchIdx(graph, QueryStart)].node_id
        /\ path.nodes[path.num_nodes].node_id
              = graph.nodes[FirstMatchIdx(graph, QueryEnd)].node_id

\* The edge the search relaxed last from node id a to node id b: the edge
\* loop of find_safe_path visits the edges in stored order and replaces the
\* score of b only by a strictly lower one, so among the edges a -> b it is
\* the first of least weighted cost.
RelaxedEdge(g, a, b) ==
    LET js == {j \in 1..num_edges(g) :
                  g.edges[j].start_node = a /\ g.edges[j].end_node = b}
        best == {j \in js : \A k \in js : EdgeCost(g.edges[j]) <= EdgeCost(g.edges[k])}
    IN  g.edges[CHOOSE j \in best : \A k \in best : j <= k]

RECURSIVE SumRelaxed(_, _, _, _)
\* <<distance, risk>> summed over the relaxed edges of the hops from i on
SumRelaxed(g, ids, i, acc) ==
    IF i > Len(ids) THEN acc
    ELSE LET e == RelaxedEdge(g, ids[i - 1], ids[i])
         IN  SumRelaxed(g, ids, i + 1, <<acc[1] + e.distance, acc[2] + e.risk_factor>>)

\* C18: for every successful find_safe_path, total_distance is the sum of
\* the distances and total_risk the sum of the risk factors of the edges the
\* search relaxed to build the returned route, also when two edges join the
\* same ordered pair of nodes.
C18_TotalsOfRelaxedEdges ==
    (IsQuery /\ ret = 0) =>
        /\ path.total_distance = SumRelaxed(graph, PathIds(path), 2, <<0, 0>>)[1]
        /\ path.total_risk = SumRelaxed(graph, PathIds(path), 2, <<0, 0>>)[2]

\* the first step of the caller's path, node 0 to node 1 of the C array
StepDx == path.nodes[2].x - path.nodes[1].x
StepDy == path.nodes[2].y - path.nodes[1].y

\* the last call was get_direction_from_path on the caller's path object
IsDirectionCall == call[1] = "get_direction_from_path" /\ ~call[2]

\* C19: get_direction_from_path returns -1 for a null path and for every
\* path with fewer than two nodes (the 1-node path of a query whose start
\* and end resolve to the same node included), and one of the direction
\* codes 0..3 for every path with at least two nodes.
C19_ShortPathIsInvalid ==
    call[1] = "get_direction_from_path" =>
        IF call[2] \/ path.num_nodes < 2 THEN ret = -1 ELSE ret \in 0..3

\* the translator has been called on the 1-node path of a successful query
C19_Witness ==
    /\ IsDirectionCall
    /\ path.num_nodes = 1
    /\ ret = -1

\* C20: for a path with at least two nodes and first step (dx, dy), the
\* translator returns East if |dx| > |dy| and dx > 0, West if |dx| > |dy|
\* and dx <= 0, and a vertical direction whenever |dx| <= |dy| (ties, and
\* dx = dy = 0, included): South for dy > 0, North otherwise.
C20_LargerAxisDecides ==
    (IsDirectionCall /\ path.num_nodes >= 2) =>
        /\ (Abs(StepDx) > Abs(StepDy) /\ StepDx > 0) => ret = 0
        /\ (Abs(StepDx) > Abs(StepDy) /\ StepDx <= 0) => ret = 2
        /\ (Abs(StepDx) <= Abs(StepDy) /\ StepDy > 0) => ret = 3
        /\ (Abs(StepDx) <= Abs(StepDy) /\ StepDy <= 0) => ret = 1

\* the translator has been called on a path whose first step is a tie
\* between the axes with a positive dx
C20_Witness ==
    /\ IsDirectionCall
    /\ path.num_nodes >= 2
    /\ StepDx > 0
    /\ Abs(StepDx) = Abs(StepDy)
    /\ ret \in {1, 3}

\* in the current iteration of the system's loop, step a ran before step b
RanBefore(a, b) ==
    \E i \in 1..Len(sys.done), j \in 1..Len(sys.done) :
        i < j /\ sys.done[i] = a /\ sys.done[j] = b

\* an iteration of the system's loop is complete
TickDone == sys.pc = "sleep"

\* C21: in every iteration of the main loop the steps run in the order
\* fusion, risk update with the fused reading, replanning policy, guidance
\* output, and the guidance output is computed from a path that the planner
\* produced.
C21_TickRunsAllSteps ==
    TickDone =>
        /\ RanBefore("fuse_environmental_data", "update_edge_risks")
        /\ RanBefore("update_edge_risks", "update_path_dynamically")
        /\ RanBefore("update_path_dynamically", "ui_update")
        /\ sys.planned

\* C25: in every iteration of the main loop the alert is triggered, for
\* 500 ms, if and only if the fused gas concentration of that iteration
\* exceeds 50.0 or its eCO2 exceeds 1000.
C25_AlertIffThreshold ==
    TickDone =>
        IF (~sys.env_data.mq2_concentration.nan /\ sys.env_data.mq2_concentration.ppm > 5000)
               \/ sys.env_data.eco2_ppm > 1000
        THEN sys.alert = 500 /\ RanBefore("ui_update", "ui_trigger_alert")
        ELSE sys.alert = 0 /\ \A i \in 1..Len(sys.done) : sys.done[i] # "ui_trigger_alert"

\* an iteration raised the alert on eCO2 alone, the gas concentration being
\* below its threshold
C25_Witness ==
    /\ TickDone
    /\ sys.alert = 500
    /\ sys.env_data.eco2_ppm = 1001
    /\ ~sys.env_data.mq2_concentration.nan
    /\ sys.env_data.mq2_concentration.ppm <= 5000

\* a planning call made from the second context has returned
PlanReturned == call[1] = "find_safe_path" /\ race.plan_pc = "idle"

\* C22: with update_edge_risks and find_safe_path in separate execution
\* contexts, a planning call never reads a half-applied update (the risks
\* it searches on are all of one generation) and the total_risk it reports
\* is that of the risks it searched on.
C22_PlannerSeesOneGeneration ==
    PlanReturned =>
        /\ ~race.mid
        /\ ret = 0 => path.total_risk = BuildPath(race.seen, race.temp).total_risk

\* what a query should report on graph g: AreaNotFound when an area matches
\* no node, Path when a route joins the nodes the areas resolve to,
\* PathNotFound otherwise
OutcomeKind(g, start_area_id, end_area_id) ==
    IF FirstMatchIdx(g, start_area_id) = -1 \/ FirstMatchIdx(g, end_area_id) = -1
    THEN "AreaNotFound"
    ELSE IF Reachable(g, ResolvedIdx(g, start_area_id), ResolvedIdx(g, end_area_id))
    THEN "Path"
    ELSE "PathNotFound"

\* C23: find_safe_path reports three distinguishable outcomes, Path,
\* AreaNotFound and PathNotFound: two queries on the same graph that return
\* the same value have the same outcome.
C23_OutcomesDistinguishable ==
    IsQuery =>
        \A sa \in QueryAreas, ea \in QueryAreas :
            Plan(graph, sa, ea).ret = ret =>
                OutcomeKind(graph, sa, ea) = OutcomeKind(graph, QueryStart, QueryEnd)

\* a stored edge without its risk factor
Fixed(e) == [edge_id |-> e.edge_id, start_node |-> e.start_node,
             end_node |-> e.end_node, distance |-> e.distance]

\* the call just made is neither path_planning_init nor path_planning_cleanup
NotReset == call'[1] \notin {"path_planning_init", "path_planning_cleanup"}

\* C24: outside path_planning_init and path_planning_cleanup, every stored
\* node keeps all its fields and every stored edge keeps its id, endpoints
\* and distance; an edge's risk factor changes only in update_edge_risks,
\* which leaves both counts unchanged; find_safe_path and
\* get_direction_from_path leave the whole graph unchanged.
C24_OnlyRiskChanges ==
    [][NotReset =>
          /\ num_nodes(graph') >= num_nodes(graph)
          /\ num_edges(graph') >= num_edges(graph)
          /\ \A i \in 1..num_nodes(graph) : graph'.nodes[i] = graph.nodes[i]
          /\ \A j \in 1..num_edges(graph) : Fixed(graph'.edges[j]) = Fixed(graph.edges[j])
          /\ call'[1] # "update_edge_risks" =>
                \A j \in 1..num_edges(graph) :
                    graph'.edges[j].risk_factor = graph.edges[j].risk_factor
          /\ call'[1] = "update_edge_risks" =>
                /\ num_nodes(graph') = num_nodes(graph)
                /\ num_edges(graph') = num_edges(graph)
          /\ call'[1] \in {"find_safe_path", "get_direction_from_path"} => graph' = graph
    ]_vars

\* update_edge_risks has just changed the risk factor of three stored edges
\* of a three-node graph
C24_Witness ==
    /\ call[1] = "update_edge_risks"
    /\ num_nodes(graph) = 3
    /\ num_edges(graph) = 3
    /\ \A j \in 1..3 : graph.edges[j].risk_factor > 0

\* the search of the last query, run on the stored graph (both areas resolve)
QueryResolves == IsQuery /\ ResolvedIdx(graph, QueryStart) # -1 /\ ResolvedIdx(graph, QueryEnd) # -1
QuerySearch ==
    SearchLoop(graph,
               InitSearch(graph, ResolvedIdx(graph, QueryStart), ResolvedIdx(graph, QueryEnd)),
               ResolvedIdx(graph, QueryEnd))

\* nodes in the closed set, nodes in the open set
ClosedIn(st) == {i \in NodeIdx(graph) : st.closed_set[i]}
OpenIn(st) == {i \in NodeIdx(graph) : st.open_set[i]}

\* C26: find_safe_path terminates on every graph within capacity, cycles,
\* self-loops and edges of distance 0 included: every iteration of the main
\* loop that does not end the search closes one open node, a closed node is
\* never opened again, so at most num_nodes nodes are expanded; the call
\* succeeds exactly when the goal is selected from the open set and fails
\* exactly when the open set is empty.
C26_SearchTerminates ==
    QueryResolves =>
        LET s == QuerySearch
        IN  /\ s.st.expanded <= num_nodes(graph)
            /\ s.st.expanded = Cardinality(ClosedIn(s.st))
            /\ ClosedIn(s.st) \cap OpenIn(s.st) = {}
            /\ (ret = 0) <=> s.found
            /\ s.found <=> ResolvedIdx(graph, QueryEnd) \in OpenIn(s.st)
            /\ (ret = -1) <=> OpenIn(s.st) = {}

\* a search on a graph with a cycle, a self-loop and an edge of distance 0
\* expanded every node but the goal and succeeded
C26_Witness ==
    /\ QueryResolves
    /\ ret = 0
    /\ num_nodes(graph) = 3
    /\ QuerySearch.st.expanded = 2
    /\ \E j \in 1..num_edges(graph) : graph.edges[j].start_node = graph.edges[j].end_node
    /\ \E j \in 1..num_edges(graph) : graph.edges[j].distance = 0
    /\ \E j \in 1..num_edges(graph), k \in 1..num_edges(graph) :
          /\ graph.edges[j].start_node = graph.edges[k].end_node
          /\ graph.edges[j].end_node = graph.edges[k].start_node
          /\ j # k

\* node index v can be reached from node index u by edges taken from their
\* start node to their end node, in at most k hops
RECURSIVE ForwardSet(_, _, _)
ForwardSet(g, from, k) ==
    IF k = 0 THEN from
    ELSE ForwardSet(g,
                    from \cup {i \in NodeIdx(g) :
                                 \E h \in from, j \in 1..num_edges(g) :
                                    /\ g.edges[j].start_node = g.nodes[h].node_id
                                    /\ g.edges[j].end_node = g.nodes[i].node_id},
                    k - 1)

ForwardReachable(g, u, v) == v \in ForwardSet(g, {u}, num_nodes(g))

\* the same with every edge usable in both directions
RECURSIVE EitherWaySet(_, _, _)
EitherWaySet(g, from, k) ==
    IF k = 0 THEN from
    ELSE EitherWaySet(g,
                      from \cup {i \in NodeIdx(g) :
                                   \E h \in from, j \in 1..num_edges(g) :
                                      \/ /\ g.edges[j].start_node = g.nodes[h].node_id
                                         /\ g.edges[j].end_node = g.nodes[i].node_id
                                      \/ /\ g.edges[j].end_node = g.nodes[h].node_id
                                         /\ g.edges[j].start_node = g.nodes[i].node_id},
                      k - 1)

\* C27: when both areas resolve, find_safe_path succeeds if and only if the
\* end node can be reached from the start node by edges followed from
\* start_node to end_node; an edge is never followed backwards.
C27_DirectedReachability ==
    QueryResolves =>
        ((ret = 0) <=> ForwardReachable(graph, ResolvedIdx(graph, QueryStart),
                                        ResolvedIdx(graph, QueryEnd)))

\* a query failed between two nodes joined by edges in the reverse
\* direction only
C27_Witness ==
    /\ QueryResolves
    /\ ret = -1
    /\ ResolvedIdx(graph, QueryEnd)
          \in EitherWaySet(graph, {ResolvedIdx(graph, QueryStart)}, num_nodes(graph))

\* C28: a path returned by a successful find_safe_path has between 1 and
\* num_nodes nodes (so at most MAX_PATH_LENGTH), no node id twice, a stored
\* edge from each node to the next, and runs from the start node to the end
\* node: the walk along the parent links ends at the start node.
C28_PathWellFormed ==
    (IsQuery /\ ret = 0) =>
        /\ path.num_nodes >= 1
        /\ path.num_nodes <= num_nodes(graph)
        /\ path.num_nodes <= MAX_PATH_LENGTH
        /\ \A i \in 1..path.num_nodes, k \in 1..path.num_nodes :
              path.nodes[i].node_id = path.nodes[k].node_id => i = k
        /\ \A i \in 1..(path.num_nodes - 1) :
              \E j \in 1..num_edges(graph) :
                 /\ graph.edges[j].start_node = path.nodes[i].node_id
                 /\ graph.edges[j].end_node = path.nodes[i + 1].node_id
        /\ path.nodes[1].node_id = graph.nodes[ResolvedIdx(graph, QueryStart)].node_id
        /\ path.nodes[path.num_nodes].node_id = graph.nodes[ResolvedIdx(graph, QueryEnd)].node_id

\* a three-node path was returned on a graph with a cycle and a self-loop
C28_Witness ==
    /\ IsQuery
    /\ ret = 0
    /\ path.num_nodes = 3
    /\ \E j \in 1..num_edges(graph) : graph.edges[j].start_node = graph.edges[j].end_node
    /\ \E j \in 1..num_edges(graph) :
          graph.edges[j].start_node = 2 /\ graph.edges[j].end_node = 1

\* the open nodes of lowest f_score
LowestOpenSet(g, st) ==
    {i \in NodeIdx(g) : st.open_set[i] /\ \A k \in NodeIdx(g) : st.open_set[k] => st.f_score[i] <= st.f_score[k]}

\* from search state st on, every iteration selects the node stored earliest
\* among the open nodes of lowest f_score (-1 when none is open)
RECURSIVE EarliestSelected(_, _, _)
EarliestSelected(g, st, v_idx) ==
    LET current_idx == LowestOpen(g, st)
        best == LowestOpenSet(g, st)
    IN  IF best = {} THEN current_idx = -1
        ELSE /\ current_idx \in best
             /\ \A i \in best : current_idx <= i
             /\ current_idx = v_idx \/ EarliestSelected(g, Expand(g, st, current_idx, v_idx), v_idx)

\* C29: find_safe_path is deterministic: a call repeated on the same graph
\* with the same areas returns the same outcome, node sequence and totals;
\* among the open nodes of equal lowest f score the node stored earliest in
\* the graph is the one expanded.
C29_Deterministic ==
    [][call'[1] = "find_safe_path" =>
          /\ (call' = call /\ graph' = graph) => (ret' = ret /\ path' = path)
          /\ Plan(graph', call'[2], call'[3]).ret = ret'
          /\ ret' = 0 => Plan(graph', call'[2], call'[3]).path = path'
          /\ (ResolvedIdx(graph', call'[2]) # -1 /\ ResolvedIdx(graph', call'[3]) # -1) =>
                EarliestSelected(graph',
                                 InitSearch(graph', ResolvedIdx(graph', call'[2]),
                                            ResolvedIdx(graph', call'[3])),
                                 ResolvedIdx(graph', call'[3]))
    ]_vars

\* nodes 2 and 3 were open with the same f score and node 3, stored before
\* node 2, was expanded: the path runs through node 3
C29_Witness ==
    /\ IsQuery
    /\ ret = 0
    /\ PathIds(path) = <<1, 3, 4>>
    /\ num_edges(graph) = 4
    /\ graph.nodes[2].node_id = 3
    /\ \A j \in 1..4 : graph.edges[j].risk_factor = graph.edges[1].risk_factor

\* C30: a failing find_safe_path call (unknown area, no route, path too
\* long) leaves the caller's path object unchanged; a successful one
\* replaces node sequence, totals and timestamp together, with nothing of
\* the previous path left in them.
C30_FailureKeepsPath ==
    [][call'[1] = "find_safe_path" =>
          /\ ret' \in {0, -1}
          /\ ret' = -1 => path' = path
          /\ ret' = 0 =>
                /\ path' = find_safe_path_at(graph, call'[2], call'[3], EmptyPath, call'[4]).path
                /\ path'.timestamp = call'[4]
                /\ Len(path'.nodes) = path'.num_nodes
    ]_vars

\* a query failed for want of a route at clock value 2 and the caller still
\* holds the three-node path of clock value 1
C30_Witness ==
    /\ IsQuery
    /\ ret = -1
    /\ call[4] = 2
    /\ ResolvedIdx(graph, QueryStart) # -1
    /\ ResolvedIdx(graph, QueryEnd) # -1
    /\ path.num_nodes = 3
    /\ path.timestamp = 1

====
